---- MODULE Spec2Model ----
(***************************************************************************)
(* Expense-tracker webhook (src/final.py): idempotent message processing,  *)
(* intent routing, expense extraction and the deletion-confirmation        *)
(* protocol, over one DynamoDB table shared by all worker instances and an *)
(* in-process session map held by each worker instance.                    *)
(***************************************************************************)
EXTENDS Integers, Sequences, FiniteSets, TLC

(***************************************************************************)
(* Text.  A Python str is a sequence of one-character strings.             *)
(***************************************************************************)
UpperAlpha ==
  <<"A","B","C","D","E","F","G","H","I","J","K","L","M",
    "N","O","P","Q","R","<<",">>T","U","V","W","X","Y","Z">>

LowerAlpha ==
  <<"a","b","c","d","e","f","g","h","i","j","k","l","m",
    "n","o","p","q","r","s","t","u","v","w","x","y","z">>

Digits == <<"0","1","2","3","4","5","6","7","8","9">>

Range(s) == {s[i] : i \in 1..Len(s)}

IsDigit(c) == c \in Range(Digits)

IsSpace(c) == c = " "

\* \w of the re module, over the characters the texts of the model use
IsWordChar(c) ==
  c \in Range(LowerAlpha) \cup Range(UpperAlpha) \cup Range(Digits) \cup {"_"}

DigitVal(c) == (CHOOSE i \in 1..10 : Digits[i] = c) - 1

LowerChar(c) ==
  IF c \in Range(UpperAlpha)
    THEN LowerAlpha[CHOOSE i \in 1..26 : UpperAlpha[i] = c]
    ELSE c

\* str.lower()
lower(text) == [i \in 1..Len(text) |-> LowerChar(text[i])]

RECURSIVE lstrip(_)
lstrip(text) ==
  IF text # <<>> /\ IsSpace(Head(text)) THEN lstrip(Tail(text)) ELSE text

RECURSIVE rstrip(_)
rstrip(text) ==
  IF text # <<>> /\ IsSpace(text[Len(text)])
    THEN rstrip(SubSeq(text, 1, Len(text) - 1))
    ELSE text

\* str.strip()
strip(text) == rstrip(lstrip(text))

\* str.replace(ch, "")
RemoveChar(text, ch) == SelectSeq(text, LAMBDA c : c # ch)

\* pattern occurs in text at index i (1-based)
MatchAt(pattern, text, i) ==
  /\ i >= 1
  /\ i + Len(pattern) - 1 <= Len(text)
  /\ SubSeq(text, i, i + Len(pattern) - 1) = pattern

\* Python: pattern in text
Contains(pattern, text) ==
  \E i \in 1..(Len(text) - Len(pattern) + 1) : MatchAt(pattern, text, i)

\* Python: any(p in text for p in patterns)
AnyIn(patterns, text) ==
  \E k \in 1..Len(patterns) : Contains(patterns[k], text)

\* length of the longest run of digits / whitespace / word characters from index i
RECURSIVE DigitRun(_, _)
DigitRun(text, i) ==
  IF i <= Len(text) /\ IsDigit(text[i]) THEN 1 + DigitRun(text, i + 1) ELSE 0

RECURSIVE SpaceRun(_, _)
SpaceRun(text, i) ==
  IF i <= Len(text) /\ IsSpace(text[i]) THEN 1 + SpaceRun(text, i + 1) ELSE 0

RECURSIVE WordRun(_, _)
WordRun(text, i) ==
  IF i <= Len(text) /\ IsWordChar(text[i]) THEN 1 + WordRun(text, i + 1) ELSE 0

(***************************************************************************)
(* Numbers.  A Python float or int amount is an integer count of           *)
(* hundredths (500.0 is 50000, 1.5 is 150); texts carry at most two        *)
(* fractional digits, so the arithmetic of the handler is exact.           *)
(***************************************************************************)
\* Python None, and Optional values: <<>> is None, <<v>> is the value v
NoneV == <<>>

Some(v) == <<v>>

\* the amount string of an analysis that found no amount
Unknown == <<"?","?","?">>

\* int(digits) for a run of decimal digits
RECURSIVE DigitsToNat(_)
DigitsToNat(ds) ==
  IF ds = <<>> THEN 0
  ELSE 10 * DigitsToNat(SubSeq(ds, 1, Len(ds) - 1)) + DigitVal(ds[Len(ds)])

\* hundredths denoted by the fractional digits fs (the third and later digits dropped)
FracToHundredths(fs) ==
  IF fs = <<>> THEN 0
  ELSE IF Len(fs) = 1 THEN 10 * DigitVal(fs[1])
  ELSE 10 * DigitVal(fs[1]) + DigitVal(fs[2])

\* str(n) for a natural number n
RECURSIVE NatToDigits(_)
NatToDigits(n) ==
  IF n < 10 THEN <<Digits[n + 1]>>
  ELSE NatToDigits(n \div 10) \o <<Digits[(n % 10) + 1]>>

\* the "," thousands grouping of format(n, ",")
RECURSIVE Group3(_)
Group3(ds) ==
  IF Len(ds) <= 3 THEN ds
  ELSE Group3(SubSeq(ds, 1, Len(ds) - 3)) \o <<",">> \o SubSeq(ds, Len(ds) - 2, Len(ds))

\* float(s) for a str s: Some(hundredths), or NoneV where Python raises
\* ValueError.  Accepted: an optional sign, digits, an optional "." and digits.
float_str(s) ==
  LET st   == strip(s)
      neg  == st # <<>> /\ Head(st) = "-"
      body == IF neg THEN Tail(st) ELSE st
      n1   == DigitRun(body, 1)
      dot  == n1 < Len(body) /\ body[n1 + 1] = "."
      n2   == IF dot THEN DigitRun(body, n1 + 2) ELSE 0
      ok   == /\ n1 >= 1
              /\ IF dot THEN n1 + 1 + n2 = Len(body) ELSE n1 = Len(body)
      mag  == 100 * DigitsToNat(SubSeq(body, 1, n1))
                + FracToHundredths(SubSeq(body, n1 + 2, n1 + 1 + n2))
  IN  IF ~ok THEN NoneV ELSE IF neg THEN Some(0 - mag) ELSE Some(mag)

(***************************************************************************)
(* Python values the classifier's JSON can carry in a field.               *)
(***************************************************************************)
PyFloat(h) == [t |-> "float", v |-> h, s |-> <<>>]

PyInt(h) == [t |-> "int", v |-> h, s |-> <<>>]

PyStr(str) == [t |-> "str", v |-> 0, s |-> str]

PyNull == [t |-> "null", v |-> 0, s |-> <<>>]

\* "{:,.2f}".format(num).rstrip('0').rstrip('.')
FormatFloat2(h) ==
  LET mag   == IF h < 0 THEN 0 - h ELSE h
      whole == Group3(NatToDigits(mag \div 100))
      d1    == (mag % 100) \div 10
      d2    == mag % 10
      frac  == IF d1 = 0 /\ d2 = 0 THEN <<>>
               ELSE IF d2 = 0 THEN <<".", Digits[d1 + 1]>>
               ELSE <<".", Digits[d1 + 1], Digits[d2 + 1]>>
      \* rstrip('0') stops at the "."; with no fraction left it also eats the
      \* trailing zeros of nothing else, because the "." is then stripped
  IN  (IF h < 0 THEN <<"-">> ELSE <<>>) \o whole \o frac

\* "{:,.0f}".format(num) for an integral num
FormatInt0(h) ==
  LET mag == IF h < 0 THEN 0 - h ELSE h
  IN  (IF h < 0 THEN <<"-">> ELSE <<>>) \o Group3(NatToDigits(mag \div 100))

\* src/final.py format_inr
format_inr(amount) ==
  IF amount.t = "str"
    THEN LET f == float_str(RemoveChar(amount.s, ","))
         IN  IF f = NoneV THEN Unknown ELSE FormatFloat2(f[1])
  ELSE IF amount.t = "float" THEN FormatFloat2(amount.v)
  ELSE IF amount.t = "int" THEN FormatInt0(amount.v)
  ELSE Unknown

\* the alternatives of the unit group, in the order the pattern lists them
UnitTokens ==
  << <<"k">>, <<"t","h","o","u","s","a","n","d">>, <<"l">>, <<"l","a","k","h">>, <<"l","a","k","h","s">>, <<"c","r">>, <<"c","r","o","r","e">>, <<"c","r","o","r","e","s">> >>

\* a faulty chain that takes a lakh for a thousand
Multiplier_lakh_as_thousand(unit) ==
  IF unit \in {<<"k">>, <<"t","h","o","u","s","a","n","d">>, <<"l">>, <<"l","a","k","h">>, <<"l","a","k","h","s">>} THEN 1000
  ELSE IF unit \in {<<"c","r">>, <<"c","r","o","r","e">>, <<"c","r","o","r","e","s">>} THEN 10000000
  ELSE 1

\* src/final.py extract_inr_amount, the if/elif chain on the matched unit
Multiplier(unit) ==
  IF unit \in {<<"k">>, <<"t","h","o","u","s","a","n","d">>} THEN 1000
  ELSE IF unit \in {<<"l">>, <<"l","a","k","h">>, <<"l","a","k","h","s">>} THEN 100000
  ELSE IF unit \in {<<"c","r">>, <<"c","r","o","r","e">>, <<"c","r","o","r","e","s">>} THEN 10000000
  ELSE 1

\* src/final.py extract_inr_amount: Some(hundredths) or NoneV
extract_inr_amount(text0) ==
  LET text   == strip(lower(RemoveChar(text0, ",")))
      starts == {i \in 1..Len(text) : IsDigit(text[i])}
  IN  IF starts = {} THEN NoneV
      ELSE
        LET i     == CHOOSE a \in starts : \A b \in starts : a <= b
            n1    == DigitRun(text, i)
            frac  == /\ i + n1 <= Len(text)
                     /\ text[i + n1] = "."
                     /\ DigitRun(text, i + n1 + 1) >= 1
            n2    == IF frac THEN DigitRun(text, i + n1 + 1) ELSE 0
            e     == i + n1 + (IF frac THEN 1 + n2 ELSE 0)
            j     == e + SpaceRun(text, e)
            hits  == {k \in 1..Len(UnitTokens) : MatchAt(UnitTokens[k], text, j)}
            base  == 100 * DigitsToNat(SubSeq(text, i, i + n1 - 1))
                       + FracToHundredths(SubSeq(text, i + n1 + 1, i + n1 + n2))
        IN  IF hits = {} THEN Some(base)
            ELSE Some(base * Multiplier(
                   UnitTokens[CHOOSE a \in hits : \A b \in hits : a <= b]))

(***************************************************************************)
(* Texts for the Amount Parser.  A case is a text put together from a       *)
(* prefix, a number, white space, a unit token and a suffix, with the value *)
(* of the number in hundredths; a case without a number is a text without  *)
(* a digit.                                                                *)
(***************************************************************************)
\* the largest amount, in hundredths, that a 32-bit integer holds
MaxHundredths == 2147483647

ParserNumbers ==
  { [text |-> <<"2">>, hundredths |-> 200], [text |-> <<"5","0","0">>, hundredths |-> 50000],
    [text |-> <<"1",".","5">>, hundredths |-> 150], [text |-> <<"0",".","2","5">>, hundredths |-> 25],
    [text |-> <<"1",",","5","0","0">>, hundredths |-> 150000] }

ParserPrefixes == { <<>>, <<"p","a","i","d"," ">>, <<" "," ","R","e","n","t",":"," ">>, <<"2"," ","p","i","z","z","a","s"," ","f","o","r"," ">> }

ParserSpaces == { <<>>, <<" ">>, <<" "," ">> }

ParserUnits == Range(UnitTokens) \cup { <<"K">>, <<"L","a","k","h">>, <<"C","R">> } \cup { <<>> }

ParserSuffixes == { <<>>, <<" ","r","e","n","t">> }

NoDigitTexts == { <<>>, <<"h","e","l","l","o">>, <<"l","u","n","c","h">>, <<"k">>, <<"o","n","e"," ","t","h","o","u","s","a","n","d">>, <<"c","r",","," ","l","a","k","h">> }

NoCase ==
  [prefix |-> <<>>, number |-> <<>>, hundredths |-> 0, spaces |-> <<>>,
   unit |-> <<>>, suffix |-> <<>>]

\* the numbers that a crore does not carry past MaxHundredths, and the
\* units that carry no number of ParserNumbers past it
SmallNumbers == {n \in ParserNumbers : n.hundredths <= MaxHundredths \div 10000000}

SmallUnits == { <<>>, <<"k">>, <<"K">>, <<"t","h","o","u","s","a","n","d">> }

\* words that are no unit token; all but the last begin with the letters of
\* one
ParserWords == { <<"l","u","n","c","h">>, <<"k","m">>, <<"c","r","o","s","s">>, <<"r","u","p","e","e","s">> }

\* a small number followed, with or without a space, by a word
WordCases ==
  { [prefix |-> p, number |-> n.text, hundredths |-> n.hundredths, spaces |-> s,
     unit |-> <<>>, suffix |-> x] :
      p \in { <<>>, <<"p","a","i","d"," ">> }, s \in { <<>>, <<" ">> }, x \in ParserWords,
      n \in SmallNumbers }

ParserCases ==
  { [prefix |-> p, number |-> n.text, hundredths |-> n.hundredths, spaces |-> s,
     unit |-> u, suffix |-> x] :
      p \in ParserPrefixes, s \in ParserSpaces, x \in ParserSuffixes,
      n \in SmallNumbers, u \in ParserUnits }
  \cup
  { [prefix |-> p, number |-> n.text, hundredths |-> n.hundredths, spaces |-> s,
     unit |-> u, suffix |-> x] :
      p \in ParserPrefixes, s \in ParserSpaces, x \in ParserSuffixes,
      n \in ParserNumbers, u \in SmallUnits }
  \cup { [NoCase EXCEPT !.prefix = t] : t \in NoDigitTexts }
  \cup WordCases

\* the text of a case
CaseText(c) == c.prefix \o c.number \o c.spaces \o c.unit \o c.suffix

(***************************************************************************)
(* Category Classifier (fallback).  An emoji is one character, written by  *)
(* its code point.                                                         *)
(***************************************************************************)
electronics_emojis ==
  << <<"U+1F4BB">>, <<"U+1F4F1">>, <<"U+231A">>, <<"U+1F5A5">>, <<"U+1F5A8">>,
     <<"U+1F4F7">>, <<"U+1F3AE">> >>

food_emojis ==
  << <<"U+1F355">>, <<"U+1F354">>, <<"U+1F35F">>, <<"U+1F357">>, <<"U+1F356">>,
     <<"U+1F957">>, <<"U+1F363">>, <<"U+1F369">>, <<"U+1F366">>, <<"U+1F368">>,
     <<"U+1F9C1">>, <<"U+1F370">>, <<"U+1F36A">> >>

transport_emojis ==
  << <<"U+1F697">>, <<"U+1F695">>, <<"U+1F68C">>, <<"U+1F686">>, <<"U+2708">>,
     <<"U+1F6F5">>, <<"U+1F6B2">>, <<"U+1F685">>, <<"U+1F684">> >>

\* the keyword table, in declaration order
category_keywords ==
  << [category |-> <<"F","o","o","d">>,
      keywords |-> << <<"f","o","o","d">>, <<"m","e","a","l">>, <<"l","u","n","c","h">>, <<"d","i","n","n","e","r">>, <<"b","r","e","a","k","f","a","s","t">>,
                      <<"r","e","s","t","a","u","r","a","n","t">>, <<"e","a","t">>, <<"c","o","f","f","e","e">>, <<"t","e","a">>, <<"c","a","f","e">> >>],
     [category |-> <<"G","r","o","c","e","r","i","e","s">>,
      keywords |-> << <<"g","r","o","c","e","r","y">>, <<"g","r","o","c","e","r","i","e","s">>, <<"s","u","p","e","r","m","a","r","k","e","t">>, <<"f","r","u","i","t">>,
                      <<"v","e","g","e","t","a","b","l","e">> >>],
     [category |-> <<"T","r","a","n","s","p","o","r","t">>,
      keywords |-> << <<"u","b","e","r">>, <<"o","l","a">>, <<"t","a","x","i">>, <<"a","u","t","o">>, <<"t","r","a","n","s","p","o","r","t">>, <<"t","r","a","v","e","l">>,
                      <<"b","u","s">>, <<"t","r","a","i","n">>, <<"m","e","t","r","o">> >>],
     [category |-> <<"V","e","h","i","c","l","e">>,
      keywords |-> << <<"c","a","r">>, <<"b","i","k","e">>, <<"c","y","c","l","e">>, <<"r","e","p","a","i","r">>, <<"s","e","r","v","i","c","e">>, <<"m","o","t","o","r">>,
                      <<"f","u","e","l">>, <<"p","e","t","r","o","l">>, <<"d","i","e","s","e","l">> >>],
     [category |-> <<"B","i","l","l","s">>,
      keywords |-> << <<"b","i","l","l">>, <<"r","e","c","h","a","r","g","e">>, <<"s","u","b","s","c","r","i","p","t","i","o","n">>, <<"e","l","e","c","t","r","i","c","i","t","y">>,
                      <<"w","a","t","e","r">>, <<"i","n","t","e","r","n","e","t">>, <<"p","h","o","n","e"," ","b","i","l","l">> >>],
     [category |-> <<"H","e","a","l","t","h">>,
      keywords |-> << <<"m","e","d","i","c","i","n","e">>, <<"d","o","c","t","o","r">>, <<"h","o","s","p","i","t","a","l">>, <<"m","e","d","i","c","a","l">>, <<"h","e","a","l","t","h">>,
                      <<"c","l","i","n","i","c">>, <<"d","e","n","t","i","s","t">> >>],
     [category |-> <<"F","a","s","h","i","o","n">>,
      keywords |-> << <<"c","l","o","t","h","e","s">>, <<"d","r","e","s","s">>, <<"s","h","i","r","t">>, <<"p","a","n","t">>, <<"s","h","o","e">>,
                      <<"f","o","o","t","w","e","a","r">>, <<"a","p","p","a","r","e","l">>, <<"f","a","s","h","i","o","n">> >>],
     [category |-> <<"E","l","e","c","t","r","o","n","i","c","s">>,
      keywords |-> << <<"p","h","o","n","e">>, <<"m","o","b","i","l","e">>, <<"l","a","p","t","o","p">>, <<"c","o","m","p","u","t","e","r">>, <<"g","a","d","g","e","t">>,
                      <<"e","l","e","c","t","r","o","n","i","c","s">>, <<"d","e","v","i","c","e">> >>],
     [category |-> <<"E","n","t","e","r","t","a","i","n","m","e","n","t">>,
      keywords |-> << <<"m","o","v","i","e">>, <<"g","a","m","e">>, <<"s","h","o","w">>, <<"c","o","n","c","e","r","t">>, <<"e","n","t","e","r","t","a","i","n","m","e","n","t">>,
                      <<"t","h","e","a","t","r","e">>, <<"a","m","u","s","e","m","e","n","t">> >>],
     [category |-> <<"E","d","u","c","a","t","i","o","n">>,
      keywords |-> << <<"b","o","o","k">>, <<"c","o","u","r","s","e">>, <<"c","l","a","s","s">>, <<"t","u","i","t","i","o","n">>, <<"s","c","h","o","o","l">>,
                      <<"c","o","l","l","e","g","e">>, <<"e","d","u","c","a","t","i","o","n">> >>] >>

\* src/final.py determine_fallback_category
determine_fallback_category(text) ==
  LET text_lower == lower(text)
      hits == {k \in 1..Len(category_keywords) :
                 AnyIn(category_keywords[k].keywords, text_lower)}
  IN  IF AnyIn(electronics_emojis, text) THEN <<"E","l","e","c","t","r","o","n","i","c","s">>
      ELSE IF AnyIn(food_emojis, text) THEN <<"F","o","o","d">>
      ELSE IF AnyIn(transport_emojis, text) THEN <<"T","r","a","n","s","p","o","r","t">>
      ELSE IF hits # {}
        THEN category_keywords[CHOOSE a \in hits : \A b \in hits : a <= b].category
      ELSE <<"M","i","s","c","e","l","l","a","n","e","o","u","s">>

\* src/final.py generate_fallback_message; a reply sentence is an opaque string
generate_fallback_message(category) ==
  IF category = <<"E","l","e","c","t","r","o","n","i","c","s">> THEN "New gadget!"
  ELSE IF category = <<"B","i","l","l","s">> THEN "Payment noted!"
  ELSE IF category = <<"F","o","o","d">> THEN "Yum!"
  ELSE IF category = <<"T","r","a","n","s","p","o","r","t">> THEN "On the move!"
  ELSE IF category = <<"M","i","s","c","e","l","l","a","n","e","o","u","s">> THEN "Got it!"
  ELSE "Added to expenses!"

\* src/final.py fallback_analysis
fallback_analysis(prompt) ==
  LET amount   == extract_inr_amount(prompt)
      category == determine_fallback_category(prompt)
  IN  [amount   |-> IF amount # NoneV /\ amount[1] # 0
                      THEN format_inr(PyFloat(amount[1])) ELSE Unknown,
       category |-> category,
       message  |-> generate_fallback_message(category)]

(***************************************************************************)
(* Intent Router predicates.                                               *)
(***************************************************************************)
deletion_keywords ==
  << <<"d","e","l","e","t","e">>, <<"r","e","m","o","v","e">>, <<"e","r","a","s","e">>, <<"c","l","e","a","r">>, <<"c","l","e","a","n">>, <<"w","i","p","e">>, <<"p","u","r","g","e">> >>

target_phrases ==
  << <<"e","x","p","e","n","s","e">>, <<"e","x","p","e","n","s","e","s">>, <<"h","i","s","t","o","r","y">>, <<"d","a","t","a">>, <<"r","e","c","o","r","d","s">>, <<"t","r","a","n","s","a","c","t","i","o","n","s">> >>

\* src/final.py is_deletion_request
is_deletion_request(text) ==
  LET text_lower == lower(text)
  IN  AnyIn(deletion_keywords, text_lower) /\ AnyIn(target_phrases, text_lower)

show_variants == << <<"s","h","o","w">>, <<"s","h","w","o">>, <<"s","h","o","q">>, <<"s","h","o">>, <<"s","b","o","w">> >>

\* the three direct phrases built from one spelling of "show"
direct_queries(show_variant) ==
  << show_variant \o <<" ","m","y"," ","e","x","p","e","n","s","e","s">>,
     show_variant \o <<" ","e","x","p","e","n","s","e","s">>,
     show_variant \o <<" ","m","y"," ","t","r","a","n","s","a","c","t","i","o","n","s">> >>

other_direct_queries ==
  << <<"m","y"," ","e","x","p","e","n","s","e","s">>, <<"w","h","a","t"," ","d","i","d"," ","i"," ","s","p","e","n","d">>, <<"h","o","w"," ","m","u","c","h"," ","d","i","d"," ","i"," ","s","p","e","n","d">>,
     <<"t","o","t","a","l"," ","e","x","p","e","n","s","e","s">>, <<"e","x","p","e","n","s","e"," ","r","e","p","o","r","t">>, <<"s","p","e","n","d","i","n","g"," ","s","u","m","m","a","r","y">> >>

query_keywords ==
  << <<"s","h","o","w">>, <<"s","h","w","o">>, <<"l","i","s","t">>, <<"d","i","s","p","l","a","y">>, <<"t","e","l","l"," ","m","e">>, <<"w","h","a","t">>, <<"h","o","w"," ","m","u","c","h">>,
     <<"t","o","t","a","l">>, <<"s","u","m","m","a","r","y">>, <<"r","e","p","o","r","t">>, <<"a","n","a","l","y","s","i","s">>, <<"b","r","e","a","k","d","o","w","n">> >>

expense_terms == << <<"e","x","p","e","n","s","e">>, <<"s","p","e","n","t">>, <<"s","p","e","n","d">>, <<"c","o","s","t">>, <<"p","a","y","m","e","n","t">> >>

\* src/final.py is_expense_query
is_expense_query(text) ==
  LET text_lower == lower(text)
  IN  \/ \E k \in 1..Len(show_variants) :
           AnyIn(direct_queries(show_variants[k]), text_lower)
      \/ AnyIn(other_direct_queries, text_lower)
      \/ /\ AnyIn(query_keywords, text_lower)
         /\ AnyIn(expense_terms, text_lower)

\* the alternatives of the pattern that bars the expense-entry lane
entry_gate_words == << <<"s","h","o","w">>, <<"d","i","s","p","l","a","y">>, <<"l","i","s","t">>, <<"m","y"," ","e","x","p","e","n","s","e","s">>, <<"t","o","t","a","l">> >>

\* a faulty gate that only stops a text that is one of the words
entry_gate_matches_whole_text(text) ==
  \E k \in 1..Len(entry_gate_words) : lower(text) = entry_gate_words[k]

\* src/final.py lambda_handler: re.search(r'(?:show|display|list|my expenses|total)', text.lower())
entry_gate_matches(text) == AnyIn(entry_gate_words, lower(text))

\* re.match(r'confirm\s+(\w+)', text_lower): Some(group 1) or NoneV
confirmation_match(text_lower) ==
  LET ws == SpaceRun(text_lower, 8)
      w  == WordRun(text_lower, 8 + ws)
  IN  IF MatchAt(<<"c","o","n","f","i","r","m">>, text_lower, 1) /\ ws >= 1 /\ w >= 1
        THEN Some(SubSeq(text_lower, 8 + ws, 8 + ws + w - 1))
        ELSE NoneV

(***************************************************************************)
(* Language-Model Extraction Adapter.  A call of the classifier ends in an *)
(* exception (network error, timeout, non-2xx, a response without the      *)
(* candidates structure), in a text without a {...} span, in a span that   *)
(* is no JSON, or in a JSON object; the object's fields are Optional.      *)
(***************************************************************************)
GeminiError == [kind |-> "error", fields |-> <<>>]

GeminiNoJson == [kind |-> "nojson", fields |-> <<>>]

GeminiBadJson == [kind |-> "badjson", fields |-> <<>>]

GeminiJson(fields) == [kind |-> "json", fields |-> <<fields>>]

\* str.title() over the letters and spaces of a category name
title(str) ==
  [i \in 1..Len(str) |->
     IF i = 1 \/ ~(str[i - 1] \in Range(LowerAlpha) \cup Range(UpperAlpha))
       THEN IF str[i] \in Range(LowerAlpha)
              THEN UpperAlpha[CHOOSE k \in 1..26 : LowerAlpha[k] = str[i]]
              ELSE str[i]
       ELSE LowerChar(str[i])]

\* a faulty parse_gemini_response that never runs the fallback analysis
parse_gemini_response_no_fallback(response, original_prompt) ==
  [amount |-> Unknown, category |-> <<"M","i","s","c","e","l","l","a","n","e","o","u","s">>, message |-> "Added to expenses!"]

\* src/final.py parse_gemini_response; data has the Optional fields amount
\* (a Python value), category (a str, or PyNull for a non-string) and message
parse_gemini_response(response, original_prompt) ==
  IF response.kind # "json" THEN fallback_analysis(original_prompt)
  ELSE
    LET data == response.fields[1]
    IN  IF data.amount = NoneV \/ data.category = NoneV
          THEN fallback_analysis(original_prompt)
        ELSE IF data.category[1].t # "str"
          THEN fallback_analysis(original_prompt)
        ELSE
          LET raw    == data.amount[1]
              digits == RemoveChar(raw.s, ",")
              amount == IF raw.t = "str" /\ digits # <<>>
                           /\ \A i \in 1..Len(digits) : IsDigit(digits[i])
                          THEN PyFloat(100 * DigitsToNat(digits))
                          ELSE raw
          IN  [amount   |-> format_inr(amount),
               category |-> title(data.category[1].s),
               message  |-> IF data.message = NoneV
                              THEN "Added to expenses!" ELSE data.message[1]]

\* src/final.py analyze_expense, the re-validation of the parsed amount;
\* manual is the amount extract_inr_amount finds in the prompt
revalidated(parsed_result, manual) ==
  LET f       == float_str(parsed_result.amount)
      retried == IF manual # NoneV /\ manual[1] # 0
                   THEN [parsed_result EXCEPT !.amount = format_inr(PyFloat(manual[1]))]
                   ELSE parsed_result
  IN  IF parsed_result.amount # <<>> /\ parsed_result.amount # Unknown
        THEN IF f = NoneV THEN retried
             ELSE IF f[1] <= 0 THEN retried
             ELSE parsed_result
        ELSE parsed_result

\* src/final.py analyze_expense
analyze_expense(prompt, response) ==
  IF response.kind = "error" THEN fallback_analysis(prompt)
  ELSE revalidated(parse_gemini_response(response, prompt), extract_inr_amount(prompt))

(***************************************************************************)
(* Bounds and input sets.                                                  *)
(***************************************************************************)
\* distinct inbound messages (message ids 1..MaxMsgs)
MaxMsgs == 2

\* deliveries of messages delivered before (at-least-once delivery)
MaxRedeliveries == 1

\* largest count the classifier returns in a deletion scope
MaxCount == 3

\* table calls that raise and invocations cut short, in one behaviour
MaxFaults == 1

\* seconds a deletion session lives
SessionTTL == 300

\* seconds in one day (timedelta(days=1))
DaySeconds == 86400

\* worker instances; each holds its own deletion_confirmations and runs one
\* invocation at a time
Instances == {1, 2}

Users == {"alice", "bob"}

\* message.chat.id of a user's private chat
ChatId(user) == IF user = "alice" THEN 101 ELSE 102

\* values of str(uuid.uuid4())[:8]
Codes == { <<"1","a","2","b","3","c","4","d">> }

\* two codes of uuid4, for a user who asks twice
TwoCodes == { <<"1","a","2","b","3","c","4","d">>, <<"d","e","a","d","b","e","e","f">> }

\* the texts of a deletion request and of a confirm with either code
OverwriteTexts ==
  { <<"d","e","l","e","t","e"," ","a","l","l"," ","m","y"," ","e","x","p","e","n","s","e","s">>, <<"c","o","n","f","i","r","m"," ","1","a","2","b","3","c","4","d">>, <<"c","o","n","f","i","r","m"," ","d","e","a","d","b","e","e","f">> }

\* the texts of an entry, a query and a deletion request
QueryTexts == { <<"s","p","e","n","t"," ","5","0","0"," ","o","n"," ","d","i","n","n","e","r">>, <<"s","h","o","w"," ","m","y"," ","e","x","p","e","n","s","e","s">>, <<"d","e","l","e","t","e"," ","a","l","l"," ","m","y"," ","e","x","p","e","n","s","e","s">> }

\* what a second user sends beside the first user's request and confirm: an
\* entry, a request, the first user's confirm and a cancel
IntruderTexts ==
  { <<"s","p","e","n","t"," ","5","0","0"," ","o","n"," ","d","i","n","n","e","r">>, <<"d","e","l","e","t","e"," ","a","l","l"," ","m","y"," ","e","x","p","e","n","s","e","s">>, <<"c","o","n","f","i","r","m"," ","1","a","2","b","3","c","4","d">>,
    <<"C","a","n","c","e","l">> }

\* message texts
Texts ==
  { <<"s","p","e","n","t"," ","5","0","0"," ","o","n"," ","d","i","n","n","e","r">>,
    <<"s","h","o","w"," ","m","y"," ","e","x","p","e","n","s","e","s">>,
    <<"d","e","l","e","t","e"," ","a","l","l"," ","m","y"," ","e","x","p","e","n","s","e","s">>,
    <<"C","a","n","c","e","l">>,
    <<"c","o","n","f","i","r","m"," ","1","a","2","b","3","c","4","d">>,
    <<"c","o","n","f","i","r","m"," ","d","e","a","d","b","e","e","f">>,
    <<"h","e","l","l","o">>,
    <<"l","i","s","t"," ","5","0","0">> }

\* the fields lambda_handler reads from the webhook body
Message(user, text) ==
  [chat_id |-> ChatId(user), username |-> user, text |-> text, parsable |-> TRUE]

\* the texts of a deletion dialogue
SessionTexts ==
  { <<"s","p","e","n","t"," ","5","0","0"," ","o","n"," ","d","i","n","n","e","r">>, <<"d","e","l","e","t","e"," ","a","l","l"," ","m","y"," ","e","x","p","e","n","s","e","s">>, <<"c","o","n","f","i","r","m"," ","1","a","2","b","3","c","4","d">> }

\* the texts of two expense entries and a deletion request
RaceTexts == { <<"s","p","e","n","t"," ","5","0","0"," ","o","n"," ","d","i","n","n","e","r">>, <<"t","a","x","i"," ","3","0","0">>, <<"d","e","l","e","t","e"," ","a","l","l"," ","m","y"," ","e","x","p","e","n","s","e","s">> }

\* the texts bob sends
BobTexts == { <<"s","p","e","n","t"," ","5","0","0"," ","o","n"," ","d","i","n","n","e","r">>, <<"d","e","l","e","t","e"," ","a","l","l"," ","m","y"," ","e","x","p","e","n","s","e","s">> }

\* a text of whitespace only
BlankText == <<" "," "," ">>

\* an update without message.chat (a channel post, an edited message):
\* chat_id reads None, which 'not chat_id' takes as it takes 0, and username
\* reads str(None)
NoChatMessage ==
  [chat_id |-> 0, username |-> "None", text |-> <<"h","e","l","l","o">>, parsable |-> TRUE]

\* an invocation whose body json.loads rejects
UnparsableBody == [chat_id |-> 0, username |-> "", text |-> <<>>, parsable |-> FALSE]

\* the texts of an entry, a query, a deletion request and its confirmation
LiveTexts ==
  { <<"s","p","e","n","t"," ","5","0","0"," ","o","n"," ","d","i","n","n","e","r">>, <<"s","h","o","w"," ","m","y"," ","e","x","p","e","n","s","e","s">>, <<"d","e","l","e","t","e"," ","a","l","l"," ","m","y"," ","e","x","p","e","n","s","e","s">>,
    <<"c","o","n","f","i","r","m"," ","1","a","2","b","3","c","4","d">> }

\* updates lambda_handler turns away with 400
MalformedMessages == {Message("alice", BlankText), NoChatMessage}

Messages ==
  {Message("alice", t) : t \in Texts} \cup {Message("bob", t) : t \in BobTexts}
    \cup MalformedMessages \cup {UnparsableBody}

\* responses of the classifier to the expense-analysis prompt
ExpenseOk ==
  GeminiJson([amount   |-> Some(PyInt(50000)),
              category |-> Some(PyStr(<<"f","o","o","d">>)),
              message  |-> Some("Tasty!")])

\* a JSON object of the classifier with the amount given and category "food"
ExpenseJson(amount) ==
  GeminiJson([amount |-> amount, category |-> Some(PyStr(<<"f","o","o","d">>)), message |-> NoneV])

\* the outcomes of the classifier call that give no amount or no category:
\* an exception, a text without a {...} span, a span that is no JSON, an
\* object without amount, without category, with a null category
FailedExpenseResponses ==
  { GeminiError,
    GeminiNoJson,
    GeminiBadJson,
    ExpenseJson(NoneV),
    GeminiJson([amount |-> Some(PyInt(50000)), category |-> NoneV, message |-> NoneV]),
    GeminiJson([amount |-> Some(PyInt(50000)), category |-> Some(PyNull),
                message |-> NoneV]) }

\* objects whose amount is no positive number: 0, -5, "abc", null
InvalidAmountResponses ==
  { ExpenseJson(Some(PyInt(0))),
    ExpenseJson(Some(PyInt(0 - 500))),
    ExpenseJson(Some(PyStr(<<"a","b","c">>))),
    ExpenseJson(Some(PyNull)) }

ExpenseResponses == FailedExpenseResponses \cup InvalidAmountResponses \cup {ExpenseOk}

\* objects with a category and a positive amount: 500 and 999 as numbers,
\* 1500 as a number, and "750" and "1,500" as digit strings
PositiveAmountResponses ==
  { ExpenseOk,
    ExpenseJson(Some(PyInt(99900))),
    ExpenseJson(Some(PyInt(150000))),
    ExpenseJson(Some(PyStr(<<"7","5","0">>))),
    ExpenseJson(Some(PyStr(<<"1",",","5","0","0">>))) }

\* texts of an entry: a number that is not the classifier's, and none
AmountTexts == { <<"s","p","e","n","t"," ","5","0","0"," ","o","n"," ","d","i","n","n","e","r">>, <<"h","e","l","l","o">> }

\* a deletion scope as extract_deletion_time_range returns it
DeletionScope(days, count, position) ==
  [days |-> days, description |-> "specified expenses", count |-> count,
   position |-> position]

\* responses of the classifier to the deletion-scope prompt, as the fields
\* of its JSON object (absent and null fields both read as None)
DeletionScopeFields ==
  {DeletionScope(NoneV, NoneV, NoneV), DeletionScope(Some(1), NoneV, NoneV),
   DeletionScope(Some(1), Some(2), Some("last"))}
    \cup {DeletionScope(NoneV, Some(c), p) :
            c \in 0..MaxCount, p \in {Some("first"), Some("last"), NoneV}}

DeletionScopeResponses ==
  {GeminiError} \cup {GeminiJson(f) : f \in DeletionScopeFields}

\* responses of the classifier to the query-scope prompt
QueryScopeResponses ==
  { GeminiError,
    GeminiJson([days |-> Some(Some(1)), description |-> Some("today"),
                limit |-> Some(NoneV)]),
    GeminiJson([days |-> NoneV, description |-> NoneV, limit |-> Some(Some(1))]) }

(***************************************************************************)
(* The DynamoDB table.  A key "EXP#<user>#<timestamp>" is <<"EXP", user,   *)
(* timestamp>> and a key "MSG#<message_id>" is <<"MSG", "", message_id>>;  *)
(* an attribute an item lacks reads Absent.                                *)
(***************************************************************************)
Absent == <<>>

ExpenseKey(username, timestamp) == <<"EXP", username, timestamp>>

MarkerKey(message_id) == <<"MSG", "", message_id>>

MarkerItem(message_id, now) ==
  [message_id |-> MarkerKey(message_id), processed_at |-> Some(now),
   username |-> Absent, type |-> Absent, timestamp |-> Absent, amount |-> Absent,
   category |-> Absent, description |-> Absent]

ExpenseItem(username, timestamp, amount, category, description) ==
  [message_id |-> ExpenseKey(username, timestamp), processed_at |-> Absent,
   username |-> Some(username), type |-> Some("EXPENSE"),
   timestamp |-> Some(timestamp), amount |-> Some(amount),
   category |-> Some(category), description |-> Some(description)]

\* dynamodb.put_item: the item replaces any item with the same key
put_item(table, item) ==
  [k \in DOMAIN table \cup {item.message_id} |->
     IF k = item.message_id THEN item ELSE table[k]]

\* dynamodb.delete_item: deleting an absent key is no error
delete_item(table, key) == [k \in DOMAIN table \ {key} |-> table[k]]

\* the items of a set of keys as a list, in ascending key (timestamp) order;
\* the order in which a scan returns items
RECURSIVE ItemsInOrder(_, _)
ItemsInOrder(table, keys) ==
  IF keys = {} THEN <<>>
  ELSE LET k == CHOOSE a \in keys : \A b \in keys : a[3] <= b[3]
       IN  <<table[k]>> \o ItemsInOrder(table, keys \ {k})

\* sorted(items, key=timestamp, reverse=...)
RECURSIVE SortedByTimestamp(_, _)
SortedByTimestamp(items, reverse) ==
  IF items = <<>> THEN <<>>
  ELSE
    LET idx == 1..Len(items)
        i   == IF reverse
                 THEN CHOOSE a \in idx :
                        \A b \in idx : items[a].timestamp[1] >= items[b].timestamp[1]
                 ELSE CHOOSE a \in idx :
                        \A b \in idx : items[a].timestamp[1] <= items[b].timestamp[1]
        rest == [j \in 1..(Len(items) - 1) |-> IF j < i THEN items[j] ELSE items[j + 1]]
    IN  <<items[i]>> \o SortedByTimestamp(rest, reverse)

\* Python items[:count]
Prefix(items, count) ==
  IF count >= 0
    THEN SubSeq(items, 1, IF count < Len(items) THEN count ELSE Len(items))
    ELSE SubSeq(items, 1, IF Len(items) + count > 0 THEN Len(items) + count ELSE 0)

\* sum(float(exp['amount']['N']) for exp in items)
RECURSIVE TotalAmount(_)
TotalAmount(items) ==
  IF items = <<>> THEN 0 ELSE Head(items).amount[1] + TotalAmount(Tail(items))

\* a faulty get_all_user_expenses that misses the oldest expense item
get_all_user_expenses_but_oldest(table, username, ok) ==
  LET items == ItemsInOrder(table,
                 {k \in DOMAIN table :
                    table[k].username = Some(username) /\ table[k].type = Some("EXPENSE")})
  IN  IF ~ok \/ items = <<>> THEN <<>> ELSE Tail(items)

\* a faulty get_all_user_expenses whose filter leaves the user out
get_all_user_expenses_any_user(table, username, ok) ==
  IF ~ok THEN <<>>
  ELSE ItemsInOrder(table, {k \in DOMAIN table : table[k].type = Some("EXPENSE")})

\* src/final.py get_all_user_expenses; ok is FALSE when the scan raises
get_all_user_expenses(table, username, ok) ==
  IF ~ok THEN <<>>
  ELSE ItemsInOrder(table,
         {k \in DOMAIN table :
            table[k].username = Some(username) /\ table[k].type = Some("EXPENSE")})

\* src/final.py get_user_expenses_for_deletion
get_user_expenses_for_deletion(table, username, start_time, ok) ==
  IF ~ok THEN <<>>
  ELSE ItemsInOrder(table,
         {k \in DOMAIN table :
            /\ table[k].username = Some(username)
            /\ table[k].type = Some("EXPENSE")
            /\ table[k].timestamp # Absent
            /\ table[k].timestamp[1] >= start_time})

\* a faulty get_user_expenses whose filter leaves the user out
get_user_expenses_any_user(table, username, time_range, now, ok) ==
  IF ~ok \/ time_range.days = NoneV THEN <<>>
  ELSE ItemsInOrder(table,
         {k \in DOMAIN table :
            /\ table[k].type = Some("EXPENSE")
            /\ table[k].timestamp # Absent
            /\ table[k].timestamp[1] >= now - time_range.days[1] * DaySeconds
            /\ table[k].amount # Absent
            /\ table[k].amount[1] > 0})

\* src/final.py get_user_expenses; days is Optional, and timedelta(days=None)
\* raises inside the try
get_user_expenses(table, username, time_range, now, ok) ==
  IF ~ok \/ time_range.days = NoneV THEN <<>>
  ELSE ItemsInOrder(table,
         {k \in DOMAIN table :
            /\ table[k].username = Some(username)
            /\ table[k].type = Some("EXPENSE")
            /\ table[k].timestamp # Absent
            /\ table[k].timestamp[1] >= now - time_range.days[1] * DaySeconds
            /\ table[k].amount # Absent
            /\ table[k].amount[1] > 0})

\* a faulty check_if_processed that reads the marker of another message id
check_if_processed_other_key(table, message_id, ok) ==
  IF ok THEN MarkerKey(message_id + 1) \in DOMAIN table ELSE FALSE

\* a faulty check_if_processed that takes a failed read as 'processed'
check_if_processed_fail_closed(table, message_id, ok) ==
  IF ok THEN MarkerKey(message_id) \in DOMAIN table ELSE TRUE

\* src/final.py check_if_processed; ok is FALSE when get_item raises
check_if_processed(table, message_id, ok) ==
  IF ok THEN MarkerKey(message_id) \in DOMAIN table ELSE FALSE

\* a faulty mark_as_processed that writes no marker
mark_as_processed_skipped(table, message_id, now, ok) == table

\* src/final.py mark_as_processed; ok is FALSE when put_item raises
mark_as_processed(table, message_id, now, ok) ==
  IF ok THEN put_item(table, MarkerItem(message_id, now)) ELSE table

\* src/final.py store_user_expense; analysis.amount is a str.  stored tells
\* whether put_item was called and returned
store_user_expense(table, username, analysis, original_text, now, ok) ==
  LET amount == float_str(RemoveChar(analysis.amount, ","))
  IN  IF amount = NoneV THEN [table |-> table, stored |-> FALSE]
      ELSE IF amount[1] <= 0 THEN [table |-> table, stored |-> FALSE]
      ELSE IF ~ok THEN [table |-> table, stored |-> FALSE]
      ELSE [table  |-> put_item(table,
                         ExpenseItem(username, now, amount[1], analysis.category,
                                     original_text)),
            stored |-> TRUE]

(***************************************************************************)
(* Time/Scope Extractor.                                                   *)
(***************************************************************************)
\* src/final.py extract_time_range_from_query
extract_time_range_from_query(response) ==
  IF response.kind # "json"
    THEN [days |-> Some(30), description |-> "recent expenses", limit |-> NoneV]
    ELSE LET f == response.fields[1]
         IN  [days        |-> IF f.days = NoneV THEN Some(30) ELSE f.days[1],
              description |-> IF f.description = NoneV
                                THEN "recent expenses" ELSE f.description[1],
              limit       |-> IF f.limit = NoneV THEN NoneV ELSE f.limit[1]]

\* src/final.py extract_deletion_time_range
extract_deletion_time_range(response) ==
  IF response.kind # "json"
    THEN [days |-> NoneV, description |-> "all expenses", count |-> NoneV,
          position |-> NoneV]
    ELSE response.fields[1]

(***************************************************************************)
(* Replies (the text handed to send_telegram_reply).                       *)
(***************************************************************************)
ReplyNoPending == [kind |-> "no_pending_deletion"]

ReplyCancelled == [kind |-> "deletion_cancelled"]

ReplyDeleted(deleted_count, description) ==
  [kind |-> "deleted", deleted_count |-> deleted_count, description |-> description]

ReplyDeleteError == [kind |-> "delete_error"]

ReplyNothingToDelete == [kind |-> "nothing_to_delete"]

ReplyConfirmPrompt(code, expense_count, total_amount, description) ==
  [kind |-> "confirm_prompt", code |-> code, expense_count |-> expense_count,
   total_amount |-> total_amount, description |-> description]

ReplyNoExpenses(description) == [kind |-> "no_expenses", description |-> description]

ReplySingle(item) == [kind |-> "single_expense", item |-> item]

ReplySummary(items, total, limit) ==
  [kind |-> "summary", items |-> items, total |-> total, limit |-> limit]

ReplyExpense(amount, category, message) ==
  [kind |-> "expense_recorded", amount |-> amount, category |-> category,
   message |-> message]

ReplyHelp == [kind |-> "help"]

\* src/final.py format_expense_summary: which records the reply shows and
\* the total it states
format_expense_summary(expenses, time_range) ==
  IF expenses = <<>> THEN ReplyNoExpenses(time_range.description)
  ELSE
    LET sorted_expenses == SortedByTimestamp(expenses, TRUE)
        limited == time_range.limit # NoneV /\ time_range.limit[1] > 0
        shown   == IF limited
                     THEN Prefix(sorted_expenses, time_range.limit[1])
                     ELSE sorted_expenses
    IN  IF limited /\ time_range.limit[1] = 1
          THEN ReplySingle(shown[1])
          ELSE ReplySummary(shown, TotalAmount(shown), time_range.limit)

(***************************************************************************)
(* Deletion Confirmation State Machine.  deletion_confirmations is a dict: *)
(* a function whose domain is the set of users with a session.             *)
(***************************************************************************)
DictDel(dict, key) == [k \in DOMAIN dict \ {key} |-> dict[k]]

DictSet(dict, key, value) ==
  [k \in DOMAIN dict \cup {key} |-> IF k = key THEN value ELSE dict[k]]

\* a faulty is_deletion_confirmation that takes a session for expired at
\* the instant expires_at
is_deletion_confirmation_early(dc, username, text, now) ==
  IF username \notin DOMAIN dc THEN [result |-> FALSE, dc |-> dc]
  ELSE IF dc[username].expires_at <= now
    THEN [result |-> FALSE, dc |-> DictDel(dc, username)]
  ELSE IF lower(text) = <<"c","a","n","c","e","l">>
    THEN [result |-> TRUE, dc |-> DictDel(dc, username)]
  ELSE
    LET confirmation_match_ == confirmation_match(lower(text))
    IN  IF /\ confirmation_match_ # NoneV
           /\ confirmation_match_[1] = dc[username].confirmation_code
          THEN [result |-> TRUE, dc |-> dc]
          ELSE [result |-> FALSE, dc |-> dc]

\* a faulty is_deletion_confirmation that removes the session of a user who
\* sends anything but its code
is_deletion_confirmation_dropping(dc, username, text, now) ==
  IF username \notin DOMAIN dc THEN [result |-> FALSE, dc |-> dc]
  ELSE IF dc[username].expires_at < now
    THEN [result |-> FALSE, dc |-> DictDel(dc, username)]
  ELSE IF lower(text) = <<"c","a","n","c","e","l">>
    THEN [result |-> TRUE, dc |-> DictDel(dc, username)]
  ELSE
    LET confirmation_match_ == confirmation_match(lower(text))
    IN  IF /\ confirmation_match_ # NoneV
           /\ confirmation_match_[1] = dc[username].confirmation_code
          THEN [result |-> TRUE, dc |-> dc]
          ELSE [result |-> FALSE, dc |-> DictDel(dc, username)]

\* src/final.py is_deletion_confirmation: its result and the dict it leaves
is_deletion_confirmation(dc, username, text, now) ==
  IF username \notin DOMAIN dc THEN [result |-> FALSE, dc |-> dc]
  ELSE IF dc[username].expires_at < now
    THEN [result |-> FALSE, dc |-> DictDel(dc, username)]
  ELSE IF lower(text) = <<"c","a","n","c","e","l">>
    THEN [result |-> TRUE, dc |-> DictDel(dc, username)]
  ELSE
    LET confirmation_match_ == confirmation_match(lower(text))
    IN  IF /\ confirmation_match_ # NoneV
           /\ confirmation_match_[1] = dc[username].confirmation_code
          THEN [result |-> TRUE, dc |-> dc]
          ELSE [result |-> FALSE, dc |-> dc]

\* the table after delete_item on each of the first n ids
RECURSIVE DeleteFirst(_, _, _)
DeleteFirst(table, expense_ids, n) ==
  IF n = 0 \/ expense_ids = <<>> THEN table
  ELSE DeleteFirst(delete_item(table, Head(expense_ids)), Tail(expense_ids), n - 1)

\* src/final.py delete_specific_expenses; fail_at is the number of
\* delete_item calls that return before one raises (NoneV: none raises)
delete_specific_expenses(table, expense_ids, fail_at) ==
  IF fail_at # NoneV /\ fail_at[1] < Len(expense_ids)
    THEN [raised |-> TRUE, deleted_count |-> 0,
          table |-> DeleteFirst(table, expense_ids, fail_at[1])]
    ELSE [raised |-> FALSE, deleted_count |-> Len(expense_ids),
          table |-> DeleteFirst(table, expense_ids, Len(expense_ids))]

\* a faulty handle_deletion_confirmation that deletes what a new scan for
\* the user's expenses returns instead of the ids the session holds
handle_deletion_confirmation_requery(table, dc, username, text, fail_at) ==
  IF username \notin DOMAIN dc
    THEN [table |-> table, dc |-> dc, reply |-> ReplyNoPending]
  ELSE IF lower(text) = <<"c","a","n","c","e","l">>
    THEN [table |-> table, dc |-> DictDel(dc, username), reply |-> ReplyCancelled]
  ELSE
    LET expenses == get_all_user_expenses(table, username, TRUE)
        done == delete_specific_expenses(table,
                  [i \in 1..Len(expenses) |-> expenses[i].message_id], fail_at)
    IN  IF done.raised
          THEN [table |-> done.table, dc |-> dc, reply |-> ReplyDeleteError]
          ELSE [table |-> done.table, dc |-> DictDel(dc, username),
                reply |-> ReplyDeleted(done.deleted_count,
                                       dc[username].time_range.description)]

\* a faulty handle_deletion_confirmation that removes the session before it
\* deletes, so that a raise leaves none
handle_deletion_confirmation_del_first(table, dc, username, text, fail_at) ==
  IF username \notin DOMAIN dc
    THEN [table |-> table, dc |-> dc, reply |-> ReplyNoPending]
  ELSE IF lower(text) = <<"c","a","n","c","e","l">>
    THEN [table |-> table, dc |-> DictDel(dc, username), reply |-> ReplyCancelled]
  ELSE
    LET confirmation_data == dc[username]
        done == delete_specific_expenses(table, confirmation_data.expenses_to_delete,
                                         fail_at)
    IN  [table |-> done.table, dc |-> DictDel(dc, username),
         reply |-> IF done.raised THEN ReplyDeleteError
                   ELSE ReplyDeleted(done.deleted_count,
                                     confirmation_data.time_range.description)]

\* src/final.py handle_deletion_confirmation
handle_deletion_confirmation(table, dc, username, text, fail_at) ==
  IF username \notin DOMAIN dc
    THEN [table |-> table, dc |-> dc, reply |-> ReplyNoPending]
  ELSE IF lower(text) = <<"c","a","n","c","e","l">>
    THEN [table |-> table, dc |-> DictDel(dc, username), reply |-> ReplyCancelled]
  ELSE
    LET confirmation_data == dc[username]
        done == delete_specific_expenses(table, confirmation_data.expenses_to_delete,
                                         fail_at)
    IN  IF done.raised
          THEN [table |-> done.table, dc |-> dc, reply |-> ReplyDeleteError]
          ELSE [table |-> done.table, dc |-> DictDel(dc, username),
                reply |-> ReplyDeleted(done.deleted_count,
                                       confirmation_data.time_range.description)]

\* a faulty candidate set that takes the first count items in the order of
\* the scan, whatever the position
deletion_candidates_scan_order(table, username, time_range, now, scan_ok) ==
  IF time_range.count # NoneV
    THEN LET all_expenses == get_all_user_expenses(table, username, scan_ok)
             count == IF time_range.count[1] < Len(all_expenses)
                        THEN time_range.count[1] ELSE Len(all_expenses)
         IN  Prefix(all_expenses, count)
  ELSE IF time_range.days # NoneV
    THEN get_user_expenses_for_deletion(table, username,
           now - time_range.days[1] * DaySeconds, scan_ok)
  ELSE get_all_user_expenses(table, username, scan_ok)

\* a faulty candidate set that looks at days before count
deletion_candidates_days_first(table, username, time_range, now, scan_ok) ==
  IF time_range.days # NoneV
    THEN get_user_expenses_for_deletion(table, username,
           now - time_range.days[1] * DaySeconds, scan_ok)
  ELSE IF time_range.count # NoneV
    THEN LET all_expenses == get_all_user_expenses(table, username, scan_ok)
             sorted_expenses ==
               IF time_range.position = Some("last")
                 THEN SortedByTimestamp(all_expenses, TRUE)
                 ELSE SortedByTimestamp(all_expenses, FALSE)
             count == IF time_range.count[1] < Len(sorted_expenses)
                        THEN time_range.count[1] ELSE Len(sorted_expenses)
         IN  Prefix(sorted_expenses, count)
  ELSE get_all_user_expenses(table, username, scan_ok)

\* src/final.py handle_deletion_request, the candidate set
deletion_candidates(table, username, time_range, now, scan_ok) ==
  IF time_range.count # NoneV
    THEN LET all_expenses == get_all_user_expenses(table, username, scan_ok)
             position == time_range.position
             sorted_expenses ==
               IF position = Some("last")
                 THEN SortedByTimestamp(all_expenses, TRUE)
                 ELSE SortedByTimestamp(all_expenses, FALSE)
             count == IF time_range.count[1] < Len(sorted_expenses)
                        THEN time_range.count[1] ELSE Len(sorted_expenses)
         IN  Prefix(sorted_expenses, count)
  ELSE IF time_range.days # NoneV
    THEN get_user_expenses_for_deletion(table, username,
           now - time_range.days[1] * DaySeconds, scan_ok)
  ELSE get_all_user_expenses(table, username, scan_ok)

\* a faulty handle_deletion_request that turns a request down while the
\* user has a session
handle_deletion_request_guarded(table, dc, chat_id, username, time_range, now, code, scan_ok) ==
  LET expenses == deletion_candidates(table, username, time_range, now, scan_ok)
      expense_count == Len(expenses)
  IN  IF expense_count = 0 \/ username \in DOMAIN dc
        THEN [dc |-> dc, reply |-> ReplyNothingToDelete]
        ELSE [dc |-> DictSet(dc, username,
                       [confirmation_code  |-> code,
                        time_range         |-> time_range,
                        expenses_to_delete |->
                          [i \in 1..expense_count |-> expenses[i].message_id],
                        chat_id            |-> chat_id,
                        expense_count      |-> expense_count,
                        expires_at         |-> now + SessionTTL]),
              reply |-> ReplyConfirmPrompt(code, expense_count,
                                           TotalAmount(expenses),
                                           time_range.description)]

\* a faulty handle_deletion_request that forgets the user's session when it
\* finds nothing to delete
handle_deletion_request_clearing(table, dc, chat_id, username, time_range, now, code, scan_ok) ==
  LET expenses == deletion_candidates(table, username, time_range, now, scan_ok)
      expense_count == Len(expenses)
  IN  IF expense_count = 0
        THEN [dc |-> DictDel(dc, username), reply |-> ReplyNothingToDelete]
        ELSE [dc |-> DictSet(dc, username,
                       [confirmation_code  |-> code,
                        time_range         |-> time_range,
                        expenses_to_delete |->
                          [i \in 1..expense_count |-> expenses[i].message_id],
                        chat_id            |-> chat_id,
                        expense_count      |-> expense_count,
                        expires_at         |-> now + SessionTTL]),
              reply |-> ReplyConfirmPrompt(code, expense_count,
                                           TotalAmount(expenses),
                                           time_range.description)]

\* src/final.py handle_deletion_request
handle_deletion_request(table, dc, chat_id, username, time_range, now, code, scan_ok) ==
  LET expenses == deletion_candidates(table, username, time_range, now, scan_ok)
      expense_count == Len(expenses)
  IN  IF expense_count = 0
        THEN [dc |-> dc, reply |-> ReplyNothingToDelete]
        ELSE [dc |-> DictSet(dc, username,
                       [confirmation_code  |-> code,
                        time_range         |-> time_range,
                        expenses_to_delete |->
                          [i \in 1..expense_count |-> expenses[i].message_id],
                        chat_id            |-> chat_id,
                        expense_count      |-> expense_count,
                        expires_at         |-> now + SessionTTL]),
              reply |-> ReplyConfirmPrompt(code, expense_count,
                                           TotalAmount(expenses),
                                           time_range.description)]

(***************************************************************************)
(* lambda_handler.  One invocation runs on one instance in three steps:    *)
(* Receive (parse, validate, check_if_processed), Mark (mark_as_processed) *)
(* and Route (everything after it); invocations of different instances     *)
(* interleave between the steps.                                           *)
(***************************************************************************)
\* the router predicates and the analysis of every text of the model,
\* evaluated once
AllTexts == Texts \cup RaceTexts

IsDeletionRequest == [t \in AllTexts |-> is_deletion_request(t)]

IsExpenseQuery == [t \in AllTexts |-> is_expense_query(t)]

EntryGateMatches == [t \in AllTexts |-> entry_gate_matches(t)]

Analysis ==
  [t \in AllTexts |->
     [r \in ExpenseResponses \cup PositiveAmountResponses |-> analyze_expense(t, r)]]

\* a faulty if-chain that tries the expense query before the deletion request
intent_query_first(conf, text) ==
  IF conf.result THEN "deletion_confirmation"
  ELSE IF IsExpenseQuery[text] THEN "expense_query"
  ELSE IF IsDeletionRequest[text] THEN "deletion_request"
  ELSE IF ~EntryGateMatches[text] THEN "expense_entry"
  ELSE "help"

\* src/final.py lambda_handler, the if-chain that picks the lane; conf is
\* the result of is_deletion_confirmation
intent(conf, text) ==
  IF conf.result THEN "deletion_confirmation"
  ELSE IF IsDeletionRequest[text] THEN "deletion_request"
  ELSE IF IsExpenseQuery[text] THEN "expense_query"
  ELSE IF ~EntryGateMatches[text] THEN "expense_entry"
  ELSE "help"

\* the result of fallback_analysis for every text of the model
Fallback == [t \in AllTexts |-> fallback_analysis(t)]

\* the outcomes of the external calls one lane makes
NoInput ==
  [response |-> GeminiError, code |-> <<>>, store_ok |-> TRUE, fail_at |-> NoneV]

FailPoints(n) == {NoneV} \cup {Some(k) : k \in 0..(n - 1)}

LaneInputs(lane, dc, username, w, Oks) ==
  IF lane = "deletion_confirmation"
    THEN {[NoInput EXCEPT !.fail_at = f] :
            f \in IF username \in DOMAIN dc /\ FALSE \in Oks
                    THEN FailPoints(Len(dc[username].expenses_to_delete))
                    ELSE {NoneV}}
  ELSE IF lane = "deletion_request"
    THEN {[NoInput EXCEPT !.response = r, !.code = c, !.store_ok = ok] :
            r \in w.scopes, c \in w.codes, ok \in Oks}
  ELSE IF lane = "expense_query"
    THEN {[NoInput EXCEPT !.response = r, !.store_ok = ok] :
            r \in w.queries, ok \in Oks}
  ELSE IF lane = "expense_entry"
    THEN {[NoInput EXCEPT !.response = r, !.store_ok = ok] :
            r \in w.expenses, ok \in Oks}
  ELSE {NoInput}

\* a faulty expense-entry lane that confirms an entry it did not store
expense_entry_of_confirming(table, ev, now, inp, analysis) ==
  LET amount == float_str(strip(RemoveChar(analysis.amount, ",")))
      valid  == /\ analysis.amount # <<>>
                /\ analysis.amount # Unknown
                /\ amount # NoneV
                /\ amount[1] > 0
      put    == IF valid
                  THEN store_user_expense(table, ev.username, analysis, ev.text,
                                          now, inp.store_ok)
                  ELSE [table |-> table, stored |-> FALSE]
  IN  [table   |-> put.table,
       stored  |-> put.stored,
       replies |-> <<ReplyExpense(IF amount = NoneV THEN 0 ELSE amount[1],
                                  analysis.category, analysis.message)>>,
       status  |-> "Expense processed"]

\* a faulty expense-entry lane that writes the item whatever the amount is
expense_entry_of_unchecked(table, ev, now, inp, analysis) ==
  LET amount == float_str(strip(RemoveChar(analysis.amount, ",")))
      value  == IF amount = NoneV THEN 0 ELSE amount[1]
  IN  [table   |-> put_item(table, ExpenseItem(ev.username, now, value,
                                               analysis.category, ev.text)),
       stored  |-> TRUE,
       replies |-> <<ReplyExpense(value, analysis.category, analysis.message)>>,
       status  |-> "Expense processed"]

\* src/final.py lambda_handler, the expense-entry lane after analyze_expense
\* returned analysis
expense_entry_of(table, ev, now, inp, analysis) ==
  LET amount == float_str(strip(RemoveChar(analysis.amount, ",")))
  IN  IF /\ analysis.amount # <<>>
         /\ analysis.amount # Unknown
         /\ amount # NoneV
         /\ amount[1] > 0
        THEN LET put == store_user_expense(table, ev.username, analysis, ev.text,
                                           now, inp.store_ok)
             IN  [table   |-> put.table,
                  stored  |-> put.stored,
                  replies |-> <<ReplyExpense(amount[1], analysis.category,
                                             analysis.message)>>,
                  status  |-> "Expense processed"]
        ELSE [table   |-> table,
              stored  |-> FALSE,
              replies |-> <<ReplyHelp>>,
              status  |-> "Instructions sent"]

\* src/final.py lambda_handler, the expense-entry lane
expense_entry(table, ev, now, inp) ==
  expense_entry_of(table, ev, now, inp, Analysis[ev.text][inp.response])

\* src/final.py lambda_handler after is_deletion_confirmation returned conf
\* and the if-chain picked lane: the table and the dict it leaves, the
\* replies it sends, the status it returns, the lane it took, whether it
\* wrote an expense item and the scope it extracted
route_lane(table, ev, now, inp, conf, lane) ==
  LET Confirmation(h) ==
        [table |-> h.table, dc |-> h.dc, replies |-> <<h.reply>>,
         status |-> "Deletion confirmation processed", lane |-> lane,
         stored |-> FALSE, time_range |-> <<>>]
      Request(time_range) ==
        LET Requested(h) ==
              [table |-> table, dc |-> h.dc, replies |-> <<h.reply>>,
               status |-> "Deletion request processed", lane |-> lane,
               stored |-> FALSE, time_range |-> <<time_range>>]
        IN  Requested(handle_deletion_request(table, conf.dc, ev.chat_id,
                        ev.username, time_range, now, inp.code, inp.store_ok))
      Query(time_range) ==
        [table |-> table, dc |-> conf.dc,
         replies |-> <<format_expense_summary(
                         get_user_expenses(table, ev.username, time_range, now,
                                           inp.store_ok),
                         time_range)>>,
         status |-> "Expense query processed", lane |-> lane,
         stored |-> FALSE, time_range |-> <<time_range>>]
      Entry(h) ==
        [table |-> h.table, dc |-> conf.dc, replies |-> h.replies,
         status |-> h.status, lane |-> lane, stored |-> h.stored,
         time_range |-> <<>>]
  IN  IF lane = "deletion_confirmation"
        THEN Confirmation(handle_deletion_confirmation(table, conf.dc, ev.username,
                                                       ev.text, inp.fail_at))
      ELSE IF lane = "deletion_request"
        THEN Request(extract_deletion_time_range(inp.response))
      ELSE IF lane = "expense_query"
        THEN Query(extract_time_range_from_query(inp.response))
      ELSE IF lane = "expense_entry"
        THEN Entry(expense_entry(table, ev, now, inp))
      ELSE [table |-> table, dc |-> conf.dc, replies |-> <<ReplyHelp>>,
            status |-> "Instructions sent", lane |-> lane, stored |-> FALSE,
            time_range |-> <<>>]

\* src/final.py lambda_handler once is_deletion_confirmation returned conf:
\* the if-chain picks the lane
route_conf(table, ev, now, inp, conf) ==
  route_lane(table, ev, now, inp, conf, intent(conf, ev.text))

\* src/final.py lambda_handler after mark_as_processed
route(table, dc, ev, now, inp) ==
  route_conf(table, ev, now, inp,
             is_deletion_confirmation(dc, ev.username, ev.text, now))

(***************************************************************************)
(* State.                                                                  *)
(***************************************************************************)
VARIABLES
  table,                   \* the DynamoDB table: key -> item
  deletion_confirmations,  \* per instance: the dict username -> session
  clock,                   \* the wall clock, in seconds
  pc,                      \* per instance: where its invocation stands
  event,                   \* per instance: the message of its invocation
  inbox,                   \* the messages the chat platform has produced
  deliveries,              \* message id -> number of deliveries so far
  nfaults,                 \* calls of the table that raised, invocations cut short
  marked,                  \* history: per instance, whether mark_as_processed
                           \* of its invocation wrote the marker
  last,                    \* history: the handler step taken last
  nreplies,                \* history: message id -> send_telegram_reply calls
  nputs,                   \* history: message id -> expense items written
  createdSince,            \* history: per instance and user, the expense keys
                           \* written since the user's session was stored
  superseded,              \* history: per instance and user, the code of the
                           \* session that the user's current session replaced
  parsed                   \* history: the last text handed to
                           \* extract_inr_amount, and what it returned

vars ==
  <<table, deletion_confirmations, clock, pc, event, inbox, deliveries, nfaults,
    marked, last, nreplies, nputs, createdSince, superseded, parsed>>

MsgIds == 1..(MaxMsgs + 1)

NoEvent == [message_id |-> 0, chat_id |-> 0, username |-> "", text |-> <<>>]

EmptyTable == <<>>

\* the clock when the first invocation starts
StartClock == DaySeconds + 3

\* a table earlier invocations have filled: an expense of alice written a
\* day before StartClock and one written two seconds before it
SeedTable ==
  put_item(put_item(EmptyTable,
    ExpenseItem("alice", 3, 12000, <<"F","o","o","d">>, <<"l","u","n","c","h"," ","1","2","0">>)),
    ExpenseItem("alice", DaySeconds + 1, 30000, <<"T","r","a","n","s","p","o","r","t">>, <<"t","a","x","i"," ","3","0","0">>))

NoStep ==
  [step |-> "none", inst |-> 0, event |-> NoEvent, status |-> "", lane |-> "",
   replies |-> <<>>, fault |-> FALSE, time_range |-> <<>>, now |-> 0,
   session |-> NoneV, response |-> NoneV]

NoParse == [case |-> NoCase, text |-> <<>>, amount |-> NoneV]

Init ==
  /\ table = SeedTable
  /\ deletion_confirmations = [i \in Instances |-> <<>>]
  /\ clock = StartClock
  /\ pc = [i \in Instances |-> "idle"]
  /\ event = [i \in Instances |-> NoEvent]
  /\ inbox = <<>>
  /\ deliveries = [m \in MsgIds |-> 0]
  /\ nfaults = 0
  /\ marked = [i \in Instances |-> FALSE]
  /\ last = NoStep
  /\ nreplies = [m \in MsgIds |-> 0]
  /\ nputs = [m \in MsgIds |-> 0]
  /\ createdSince = [i \in Instances |-> [u \in Users |-> {}]]
  /\ superseded = [i \in Instances |-> [u \in Users |-> NoneV]]
  /\ parsed = NoParse

\* the keys of the expense items of a table
ExpenseKeys(t) == {k \in DOMAIN t : k[1] = "EXP"}

\* the keys of the expense items of one user
UserExpenseKeys(t, user) == {k \in ExpenseKeys(t) : k[2] = user}


(***************************************************************************)
(* Actions.  w is the world the handler runs in: the messages users send  *)
(* (msgs), whether invocations of different instances overlap (overlap),   *)
(* the outcomes a call of the table may have (oks: TRUE, it returns, and   *)
(* FALSE, it raises), the responses of the classifier to its three prompts *)
(* (expenses, scopes, queries), the codes uuid4 yields (codes) and the     *)
(* number of messages sent (max_msgs), and whether the chat platform       *)
(* answers a reply that is sent (sends).                                   *)
(***************************************************************************)
\* deliveries of messages that had been delivered before
RECURSIVE SumTo(_, _)
SumTo(f, n) == IF n = 0 THEN 0 ELSE f[n] + SumTo(f, n - 1)

Redeliveries == SumTo(deliveries, MaxMsgs + 1) - Len(inbox)

\* the outcomes still possible after nfaults failures
Outcomes(w) == IF nfaults < MaxFaults THEN w.oks ELSE {TRUE}

\* a faulty validation that lets an empty text pass
invalid_request_chat_only(ev) == ev.chat_id = 0

\* src/final.py lambda_handler: 'if not chat_id or not text'
invalid_request(ev) == ev.chat_id = 0 \/ ev.text = <<>>

\* src/final.py lambda_handler: the statusCode returned with a body
StatusCode(status) ==
  IF status = "Invalid request" THEN 400
  ELSE IF status = "Internal Server Error" THEN 500
  ELSE 200

\* src/final.py lambda_handler up to check_if_processed: instance i starts
\* an invocation for a new message or for a redelivered one
Receive(i, w) ==
  /\ i \in w.instances
  /\ pc[i] = "idle"
  /\ w.overlap \/ \A j \in Instances : pc[j] = "idle"
  /\ \E mid \in MsgIds, read_ok \in Outcomes(w) :
       /\ mid <= Len(inbox) + 1
       /\ mid <= w.max_msgs
       /\ mid <= Len(inbox) => Redeliveries < w.max_redeliveries
       /\ \E m \in (IF mid <= Len(inbox) THEN {inbox[mid]} ELSE w.msgs) :
            LET ev == [message_id |-> mid, chat_id |-> m.chat_id,
                       username |-> m.username, text |-> strip(m.text)]
                unparsed == ~m.parsable
                invalid == invalid_request(ev)
                processed == check_if_processed(table, mid, read_ok)
                proceed == ~unparsed /\ ~invalid /\ ~processed
            IN  /\ unparsed \/ invalid => read_ok
                /\ inbox' = IF mid <= Len(inbox) THEN inbox ELSE Append(inbox, m)
                /\ deliveries' = [deliveries EXCEPT ![mid] = @ + 1]
                /\ nfaults' = IF read_ok THEN nfaults ELSE nfaults + 1
                /\ pc' = IF proceed THEN [pc EXCEPT ![i] = "mark"] ELSE pc
                /\ event' = IF proceed THEN [event EXCEPT ![i] = ev] ELSE event
                /\ last' = [step |-> "receive", inst |-> i, event |-> ev,
                            status |-> IF unparsed THEN "Internal Server Error"
                                       ELSE IF invalid THEN "Invalid request"
                                       ELSE IF processed THEN "Already processed"
                                       ELSE "",
                            lane |-> "", replies |-> <<>>, fault |-> ~read_ok,
                            time_range |-> <<>>, now |-> clock,
                            session |-> NoneV, response |-> NoneV]
  /\ UNCHANGED <<table, deletion_confirmations, clock, marked, nreplies, nputs,
                 createdSince, superseded, parsed>>

\* src/final.py lambda_handler: mark_as_processed
Mark(i, w) ==
  /\ pc[i] = "mark"
  /\ \E put_ok \in Outcomes(w) :
       /\ table' = mark_as_processed(table, event[i].message_id, clock, put_ok)
       /\ nfaults' = IF put_ok THEN nfaults ELSE nfaults + 1
       /\ marked' = [marked EXCEPT ![i] = put_ok]
       /\ last' = [step |-> "mark", inst |-> i, event |-> event[i], status |-> "",
                   lane |-> "", replies |-> <<>>, fault |-> ~put_ok,
                   time_range |-> <<>>, now |-> clock,
                   session |-> NoneV, response |-> NoneV]
  /\ pc' = [pc EXCEPT ![i] = "route"]
  /\ UNCHANGED <<deletion_confirmations, clock, event, inbox, deliveries, nreplies,
                 nputs, createdSince, superseded, parsed>>

\* the clock after instance i wrote an expense item: a later invocation
\* reads a later clock, an invocation running at the same time may read the
\* same one
ClockAfterPut(i) ==
  IF \E j \in Instances \ {i} : pc[j] # "idle"
    THEN {clock, clock + 1}
    ELSE {clock + 1}

\* src/final.py send_telegram_reply: requests.post is called without a
\* timeout, so the call returns (or raises, which is caught) or never comes
\* back
SendOutcomes(w) == IF nfaults < MaxFaults THEN w.sends ELSE {"returns"}

\* the lanes that call the classifier
ClassifierLanes == {"deletion_request", "expense_query", "expense_entry"}

\* a faulty lookup in which every instance reads the dict of instance 1
shared_deletion_confirmations(dcs, i) == dcs[1]

\* src/final.py 'deletion_confirmations = {}': a module-level dict, one in
\* the memory of each instance
own_deletion_confirmations(dcs, i) == dcs[i]

\* src/final.py lambda_handler from is_deletion_confirmation to its return
Route(i, w) ==
  /\ pc[i] = "route"
  /\ LET ev   == event[i]
         dc   == own_deletion_confirmations(deletion_confirmations, i)
         conf == is_deletion_confirmation(dc, ev.username, ev.text, clock)
         lane == intent(conf, ev.text)
         Done(inp, send, out) ==
           LET dcs == [deletion_confirmations EXCEPT ![i] = out.dc]
               key == ExpenseKey(ev.username, clock)
               opened == /\ Len(out.replies) = 1
                         /\ out.replies[1].kind = "confirm_prompt"
               fault == ~inp.store_ok \/ inp.fail_at # NoneV \/ send = "hangs"
           IN  /\ table' = out.table
               /\ deletion_confirmations' = dcs
               /\ clock' \in IF out.stored THEN ClockAfterPut(i) ELSE {clock}
               /\ nfaults' = IF fault THEN nfaults + 1 ELSE nfaults
               /\ nreplies' = [nreplies EXCEPT ![ev.message_id] = @ + Len(out.replies)]
               /\ nputs' = [nputs EXCEPT ![ev.message_id] =
                              IF out.stored THEN @ + 1 ELSE @]
               /\ createdSince' =
                    [j \in Instances |-> [u \in Users |->
                       IF u \notin DOMAIN dcs[j] THEN {}
                       ELSE IF j = i /\ u = ev.username /\ opened THEN {}
                       ELSE IF out.stored /\ u = ev.username
                         THEN createdSince[j][u] \cup {key}
                       ELSE createdSince[j][u]]]
               /\ superseded' =
                    [j \in Instances |-> [u \in Users |->
                       IF u \notin DOMAIN dcs[j] THEN NoneV
                       ELSE IF j = i /\ u = ev.username /\ opened
                         THEN IF u \in DOMAIN dc
                                THEN Some(dc[u].confirmation_code) ELSE NoneV
                       ELSE superseded[j][u]]]
               /\ pc' = [pc EXCEPT ![i] = IF send = "hangs" THEN "hung" ELSE "idle"]
               /\ last' = [step |-> "route", inst |-> i, event |-> ev,
                           status |-> IF send = "hangs" THEN "" ELSE out.status,
                           lane |-> out.lane,
                           replies |-> out.replies, fault |-> fault,
                           time_range |-> out.time_range, now |-> clock,
                           session |-> IF ev.username \in DOMAIN dc
                                         THEN Some(dc[ev.username]) ELSE NoneV,
                           response |-> IF out.lane \in ClassifierLanes
                                          THEN Some(inp.response) ELSE NoneV]
     IN  \E inp \in LaneInputs(lane, conf.dc, ev.username, w, Outcomes(w)),
            send \in SendOutcomes(w) :
           Done(inp, send, route(table, dc, ev, clock, inp))
  /\ event' = [event EXCEPT ![i] = NoEvent]
  /\ marked' = [marked EXCEPT ![i] = FALSE]
  /\ UNCHANGED <<inbox, deliveries, parsed>>

\* the platform ends the invocation of instance i (timeout, kill) between
\* two of its steps
Abort(i) ==
  /\ pc[i] \in {"mark", "route"}
  /\ nfaults < MaxFaults
  /\ nfaults' = nfaults + 1
  /\ pc' = [pc EXCEPT ![i] = "idle"]
  /\ event' = [event EXCEPT ![i] = NoEvent]
  /\ marked' = [marked EXCEPT ![i] = FALSE]
  /\ last' = [step |-> "abort", inst |-> i, event |-> event[i], status |-> "",
              lane |-> "", replies |-> <<>>, fault |-> TRUE, time_range |-> <<>>,
              now |-> clock, session |-> NoneV, response |-> NoneV]
  /\ UNCHANGED <<table, deletion_confirmations, clock, inbox, deliveries, nreplies,
                 nputs, createdSince, superseded, parsed>>

\* time passes until the instant some live session expires, or until the
\* second after it
AdvanceClock ==
  /\ \E i \in Instances : \E u \in DOMAIN deletion_confirmations[i] :
       /\ clock <= deletion_confirmations[i][u].expires_at
       /\ \/ /\ clock < deletion_confirmations[i][u].expires_at
             /\ clock' = deletion_confirmations[i][u].expires_at
          \/ clock' = deletion_confirmations[i][u].expires_at + 1
  /\ last' = [NoStep EXCEPT !.step = "clock", !.now = clock']
  /\ UNCHANGED <<table, deletion_confirmations, pc, event, inbox, deliveries,
                 nfaults, marked, nreplies, nputs, createdSince, superseded, parsed>>

\* the outcomes of a scope-extraction call that give no scope
FailedScopeResponses == {GeminiError, GeminiNoJson, GeminiBadJson}

\* every lane, a table whose calls may raise, one invocation at a time
World ==
  [msgs     |-> Messages,
   max_msgs |-> MaxMsgs,
   max_redeliveries |-> MaxRedeliveries,
   instances |-> Instances,
   overlap  |-> FALSE,
   oks      |-> BOOLEAN,
   expenses |-> ExpenseResponses,
   scopes   |-> FailedScopeResponses
                  \cup {GeminiJson(DeletionScope(NoneV, Some(1), NoneV))},
   queries  |-> FailedScopeResponses,
   codes    |-> Codes,
   sends    |-> {"returns"}]

Next ==
  \/ \E i \in Instances : Receive(i, World)
  \/ \E i \in Instances : Mark(i, World)
  \/ \E i \in Instances : Route(i, World)
  \/ \E i \in Instances : Abort(i)
  \/ AdvanceClock

\* every behaviour of the handler in World
Spec == Init /\ [][Next]_vars

\* one user who enters expenses, asks for a deletion and confirms it, one
\* message more than in World, every deletion scope, one instance
SessionWorld ==
  [msgs     |-> {Message("alice", t) : t \in SessionTexts},
   max_msgs |-> MaxMsgs + 1,
   max_redeliveries |-> 0,
   instances |-> {1},
   overlap  |-> FALSE,
   oks      |-> BOOLEAN,
   expenses |-> {ExpenseOk},
   scopes   |-> DeletionScopeResponses,
   queries  |-> {GeminiError},
   codes    |-> Codes,
   sends    |-> {"returns"}]

NextSession ==
  \/ \E i \in Instances : Receive(i, SessionWorld)
  \/ \E i \in Instances : Mark(i, SessionWorld)
  \/ \E i \in Instances : Route(i, SessionWorld)
  \/ \E i \in Instances : Abort(i)
  \/ AdvanceClock

SpecSession == Init /\ [][NextSession]_vars

\* one user who asks for a deletion, asks again and confirms with the code
\* of either request; no call of the table raises
OverwriteWorld ==
  [msgs     |-> {Message("alice", t) : t \in OverwriteTexts},
   max_msgs |-> MaxMsgs + 1,
   max_redeliveries |-> 0,
   instances |-> {1},
   overlap  |-> FALSE,
   oks      |-> {TRUE},
   expenses |-> {GeminiError},
   scopes   |-> {GeminiError,
                 GeminiJson(DeletionScope(NoneV, Some(1), Some("last")))},
   queries  |-> {GeminiError},
   codes    |-> TwoCodes,
   sends    |-> {"returns"}]

NextOverwrite ==
  \/ \E i \in Instances : Receive(i, OverwriteWorld)
  \/ \E i \in Instances : Mark(i, OverwriteWorld)
  \/ \E i \in Instances : Route(i, OverwriteWorld)
  \/ \E i \in Instances : Abort(i)
  \/ AdvanceClock

SpecOverwrite == Init /\ [][NextOverwrite]_vars

\* two users who enter expenses, one of whom asks for a deletion and
\* queries, with every query scope
QueryWorld ==
  [msgs     |-> {Message("alice", t) : t \in QueryTexts}
                  \cup {Message("bob", <<"s","p","e","n","t"," ","5","0","0"," ","o","n"," ","d","i","n","n","e","r">>)},
   max_msgs |-> MaxMsgs + 1,
   max_redeliveries |-> 0,
   instances |-> {1},
   overlap  |-> FALSE,
   oks      |-> BOOLEAN,
   expenses |-> {ExpenseOk},
   scopes   |-> {GeminiError},
   queries  |-> QueryScopeResponses,
   codes    |-> Codes,
   sends    |-> {"returns"}]

NextQuery ==
  \/ \E i \in Instances : Receive(i, QueryWorld)
  \/ \E i \in Instances : Mark(i, QueryWorld)
  \/ \E i \in Instances : Route(i, QueryWorld)
  \/ \E i \in Instances : Abort(i)
  \/ AdvanceClock

SpecQuery == Init /\ [][NextQuery]_vars

\* entries for which the classifier returns a category and a positive
\* amount, below and above a thousand; no session is ever stored, so the
\* clock has nothing to expire
AmountWorld ==
  [msgs     |-> {Message("alice", t) : t \in AmountTexts},
   max_msgs |-> MaxMsgs,
   max_redeliveries |-> MaxRedeliveries,
   instances |-> {1},
   overlap  |-> FALSE,
   oks      |-> BOOLEAN,
   expenses |-> PositiveAmountResponses,
   scopes   |-> {GeminiError},
   queries  |-> {GeminiError},
   codes    |-> Codes,
   sends    |-> {"returns"}]

NextAmount ==
  \/ \E i \in Instances : Receive(i, AmountWorld)
  \/ \E i \in Instances : Mark(i, AmountWorld)
  \/ \E i \in Instances : Route(i, AmountWorld)
  \/ \E i \in Instances : Abort(i)

SpecAmount == Init /\ [][NextAmount]_vars

\* two users on one instance: one asks for a deletion and confirms it, the
\* other enters an expense, asks for a deletion, or sends the first user's
\* confirm or a cancel
IsolationWorld ==
  [msgs     |-> {Message("alice", t) :
                   t \in {<<"d","e","l","e","t","e"," ","a","l","l"," ","m","y"," ","e","x","p","e","n","s","e","s">>, <<"c","o","n","f","i","r","m"," ","1","a","2","b","3","c","4","d">>}}
                  \cup {Message("bob", t) : t \in IntruderTexts},
   max_msgs |-> MaxMsgs + 1,
   max_redeliveries |-> 0,
   instances |-> {1},
   overlap  |-> FALSE,
   oks      |-> BOOLEAN,
   expenses |-> {GeminiError},
   scopes   |-> {GeminiError},
   queries  |-> {GeminiError},
   codes    |-> Codes,
   sends    |-> {"returns"}]

NextIsolation ==
  \/ \E i \in Instances : Receive(i, IsolationWorld)
  \/ \E i \in Instances : Mark(i, IsolationWorld)
  \/ \E i \in Instances : Route(i, IsolationWorld)
  \/ \E i \in Instances : Abort(i)
  \/ AdvanceClock

SpecIsolation == Init /\ [][NextIsolation]_vars

\* invocations of the two instances overlap; no call of the table raises
RaceWorld ==
  [msgs     |-> {Message("alice", t) : t \in RaceTexts},
   max_msgs |-> MaxMsgs,
   max_redeliveries |-> MaxRedeliveries,
   instances |-> Instances,
   overlap  |-> TRUE,
   oks      |-> {TRUE},
   expenses |-> {GeminiError},
   scopes   |-> {GeminiError},
   queries  |-> {GeminiError},
   codes    |-> Codes,
   sends    |-> {"returns"}]

NextRace ==
  \/ \E i \in Instances : Receive(i, RaceWorld)
  \/ \E i \in Instances : Mark(i, RaceWorld)
  \/ \E i \in Instances : Route(i, RaceWorld)
  \/ AdvanceClock

SpecRace == Init /\ [][NextRace]_vars

\* one instance, no call of the table raises, the classifier is down, and
\* the chat platform may leave a reply that is sent unanswered
LiveWorld ==
  [msgs     |-> {Message("alice", t) : t \in LiveTexts} \cup MalformedMessages
                  \cup {UnparsableBody},
   max_msgs |-> MaxMsgs,
   max_redeliveries |-> MaxRedeliveries,
   instances |-> {1},
   overlap  |-> FALSE,
   oks      |-> {TRUE},
   expenses |-> {GeminiError},
   scopes   |-> {GeminiError},
   queries  |-> {GeminiError},
   codes    |-> Codes,
   sends    |-> {"returns", "hangs"}]

NextLive ==
  \/ \E i \in Instances : Receive(i, LiveWorld)
  \/ \E i \in Instances : Mark(i, LiveWorld)
  \/ \E i \in Instances : Route(i, LiveWorld)

\* the control of the invocation on instance i moves on: from marking to
\* routing, from routing to its return or into a send that does not come
\* back
Runs(i) ==
  /\ pc[i] \in {"mark", "route"}
  /\ pc' \in {[pc EXCEPT ![i] = s] : s \in {"route", "idle", "hung"} \ {pc[i]}}

\* the interpreter runs the handler on: an invocation that can take its next
\* step takes it
SpecLive ==
  /\ Init
  /\ [][NextLive]_vars
  /\ \A i \in Instances : WF_pc(Runs(i))

\* src/final.py extract_inr_amount, called on the text of a case
Parse(c) ==
  /\ parsed' = [case |-> c, text |-> CaseText(c),
                amount |-> extract_inr_amount(CaseText(c))]
  /\ UNCHANGED <<table, deletion_confirmations, clock, pc, event, inbox, deliveries,
                 nfaults, marked, last, nreplies, nputs, createdSince, superseded>>

NextParser == \E c \in ParserCases : Parse(c)

\* the Amount Parser alone, on every text of ParserCases
SpecParser == Init /\ [][NextParser]_vars

(***************************************************************************)
(* Properties.  A step is named by what it does to pc and last; the state  *)
(* before the step is read unprimed, the state after it primed.            *)
(***************************************************************************)
\* the step is the Receive step of an invocation on instance i
ReceiveStep(i) == pc[i] = "idle" /\ last'.step = "receive" /\ last'.inst = i

\* the step is the Route step of an invocation on instance i
RouteStep(i) == pc[i] = "route" /\ last'.step = "route" /\ last'.inst = i

\* the session of user u in the dict dc is PENDING and not expired at now
LiveSession(dc, u, now) == u \in DOMAIN dc /\ now <= dc[u].expires_at

\* the ids a session holds in expenses_to_delete
Snapshot(session) == Range(session.expenses_to_delete)

\* the c expense keys of user u with the smallest timestamps
Oldest(t, u, c) ==
  {k \in UserExpenseKeys(t, u) :
     Cardinality({j \in UserExpenseKeys(t, u) : j[3] < k[3]}) < c}

\* the c expense keys of user u with the largest timestamps
Newest(t, u, c) ==
  {k \in UserExpenseKeys(t, u) :
     Cardinality({j \in UserExpenseKeys(t, u) : j[3] > k[3]}) < c}

\* the Route step of instance i handles a 'confirm <code>' message of a user
\* whose session is live and holds that code
ValidConfirm(i) ==
  /\ RouteStep(i)
  /\ LiveSession(deletion_confirmations[i], event[i].username, clock)
  /\ confirmation_match(lower(event[i].text)) =
       Some(deletion_confirmations[i][event[i].username].confirmation_code)

\* the Route step of instance i answers a confirm with the success reply
SuccessfulConfirm(i) ==
  /\ RouteStep(i)
  /\ last'.lane = "deletion_confirmation"
  /\ last'.replies[1].kind = "deleted"

\* the Route step of instance i handles a deletion request
RequestStep(i) == RouteStep(i) /\ last'.lane = "deletion_request"

\* the snapshot a deletion request has to take is the set expected: with no
\* record to delete it answers so, else it opens a session holding expected
SnapshotIs(i, expected) ==
  IF expected = {}
    THEN last'.replies = <<ReplyNothingToDelete>>
    ELSE /\ event[i].username \in DOMAIN deletion_confirmations'[i]
         /\ Snapshot(deletion_confirmations'[i][event[i].username]) = expected

C2_ExactlyOnce == \A m \in MsgIds : nreplies[m] <= 1 /\ nputs[m] <= 1

\* C3: a successful confirm removes from the table exactly the ids the
\* session captured, the session keeps its snapshot from the request to the
\* confirm, and every record the user created since the request is still
\* in the table after the confirm.
C3_SnapshotDeletion ==
  [][\A i \in Instances :
       /\ SuccessfulConfirm(i) =>
            LET u == event[i].username
            IN  /\ DOMAIN table' =
                     DOMAIN table \ Snapshot(deletion_confirmations[i][u])
                /\ createdSince[i][u] \subseteq DOMAIN table'
       /\ \A u \in DOMAIN deletion_confirmations[i] :
            (/\ u \in DOMAIN deletion_confirmations'[i]
             /\ ~(RequestStep(i) /\ event[i].username = u))
              => deletion_confirmations'[i][u] = deletion_confirmations[i][u]]_vars

\* request, entry, confirm: the confirm succeeded and the record entered
\* after the request is in the table
C3_Witness ==
  /\ Len(inbox) = 3
  /\ IsDeletionRequest[inbox[1].text]
  /\ inbox[2].text = <<"s","p","e","n","t"," ","5","0","0"," ","o","n"," ","d","i","n","n","e","r">>
  /\ last.step = "route"
  /\ last.event.message_id = 3
  /\ last.lane = "deletion_confirmation"
  /\ last.replies[1].kind = "deleted"
  /\ last.replies[1].deleted_count >= 1
  /\ \E k \in UserExpenseKeys(table, "alice") : k[3] >= StartClock

\* C4: an expense record leaves the table only in a step that handles a
\* 'confirm <code>' of its owner whose session is live and holds that code,
\* and no step changes a record that stays.
C4_Lifecycle ==
  [][\A k \in ExpenseKeys(table) :
       /\ k \notin DOMAIN table' =>
            \E i \in Instances : ValidConfirm(i) /\ event[i].username = k[2]
       /\ k \in DOMAIN table' => table'[k] = table[k]]_vars

\* C5: a confirm with a code other than the live session's leaves the
\* session as it is and deletes nothing; a confirm or a cancel handled after
\* expires_at removes the session and deletes nothing; a confirm with the
\* session's code at now = expires_at is accepted.
C5_WrongCodeAndExpiry ==
  [][\A i \in Instances : RouteStep(i) =>
       LET u  == event[i].username
           dc == deletion_confirmations[i]
           m  == confirmation_match(lower(event[i].text))
       IN  /\ (/\ LiveSession(dc, u, clock)
               /\ m # NoneV
               /\ m # Some(dc[u].confirmation_code))
                => /\ u \in DOMAIN deletion_confirmations'[i]
                   /\ deletion_confirmations'[i][u] = dc[u]
                   /\ ExpenseKeys(table) \subseteq ExpenseKeys(table')
           /\ (/\ u \in DOMAIN dc
               /\ dc[u].expires_at < clock
               /\ (m # NoneV \/ lower(event[i].text) = <<"c","a","n","c","e","l">>))
                => /\ u \notin DOMAIN deletion_confirmations'[i]
                   /\ ExpenseKeys(table) \subseteq ExpenseKeys(table')
           /\ (/\ u \in DOMAIN dc
               /\ dc[u].expires_at = clock
               /\ m = Some(dc[u].confirmation_code))
                => /\ last'.lane = "deletion_confirmation"
                   /\ ~last'.fault =>
                        /\ last'.replies[1].kind = "deleted"
                        /\ Snapshot(dc[u]) \cap DOMAIN table' = {}]_vars

\* a confirm with the session's code, handled at the instant the session
\* expires, deleted the snapshot
C5_Witness ==
  /\ last.step = "route"
  /\ last.session # NoneV
  /\ last.session[1].expires_at = last.now
  /\ last.lane = "deletion_confirmation"
  /\ last.replies[1].kind = "deleted"
  /\ Snapshot(last.session[1]) \cap DOMAIN table = {}

\* C6: a 'cancel' (any letter case) of a user with a live session discards
\* the session, deletes no record, and is answered with the cancellation
\* acknowledgement.
C6_Cancel ==
  [][\A i \in Instances :
       (/\ RouteStep(i)
        /\ LiveSession(deletion_confirmations[i], event[i].username, clock)
        /\ lower(event[i].text) = <<"c","a","n","c","e","l">>)
         => /\ event[i].username \notin DOMAIN deletion_confirmations'[i]
            /\ ExpenseKeys(table) \subseteq ExpenseKeys(table')
            /\ last'.replies = <<ReplyCancelled>>]_vars

\* C7: after a confirm with the session's code, handled before expiry with
\* every table call returning, for a session whose scope is 'all' and since
\* whose request the user entered no expense, the table holds no expense
\* record of the user and the session is gone.
C7_DeleteAll ==
  [][\A i \in Instances :
       (/\ ValidConfirm(i)
        /\ LET scope == deletion_confirmations[i][event[i].username].time_range
           IN  scope.days = NoneV /\ scope.count = NoneV /\ scope.position = NoneV
        /\ createdSince[i][event[i].username] = {}
        /\ ~last'.fault)
         => /\ UserExpenseKeys(table', event[i].username) = {}
            /\ event[i].username \notin DOMAIN deletion_confirmations'[i]]_vars

\* 'delete all my expenses' then the confirm: both records of the user are
\* gone
C7_Witness ==
  /\ last.step = "route"
  /\ last.lane = "deletion_confirmation"
  /\ last.session # NoneV
  /\ last.session[1].time_range.days = NoneV
  /\ last.session[1].time_range.count = NoneV
  /\ last.replies[1].kind = "deleted"
  /\ last.replies[1].deleted_count = 2
  /\ ~last.fault
  /\ UserExpenseKeys(table, last.event.username) = {}

C9_DefaultLast ==
  [][\A i \in Instances :
       (/\ RequestStep(i)
        /\ last'.time_range[1].count # NoneV
        /\ last'.time_range[1].position = NoneV
        /\ ~last'.fault)
         => SnapshotIs(i, Newest(table, event[i].username,
                                 last'.time_range[1].count[1]))]_vars

\* C10: the count in the success reply of a confirm is the number of
\* expense records the confirm removed from the table.
C10_ReportedCount ==
  [][\A i \in Instances :
       SuccessfulConfirm(i)
         => last'.replies[1].deleted_count =
              Cardinality(ExpenseKeys(table) \ ExpenseKeys(table'))]_vars

\* the step is the Mark step of an invocation on instance i
MarkStep(i) == pc[i] = "mark" /\ last'.step = "mark" /\ last'.inst = i

\* the Route step of instance i takes the expense-entry lane
EntryStep(i) == RouteStep(i) /\ last'.lane = "expense_entry"

\* the amount string of an extraction result denotes a number above zero;
\* it is not the unknown sentinel, not non-numeric, not zero, not negative
PositiveAmount(analysis) ==
  /\ analysis.amount # <<>>
  /\ analysis.amount # Unknown
  /\ float_str(RemoveChar(analysis.amount, ",")) # NoneV
  /\ float_str(RemoveChar(analysis.amount, ","))[1] > 0

\* the extraction result the entry lane of a step works on: that of the
\* step's text under the classifier response the step got
StepAnalysis(text, step) == Analysis[text][step.response[1]]

\* C11: every expense record in the table has an amount above zero, and an
\* expense-entry message whose extracted amount is zero, negative, unknown
\* or non-numeric never results in a put.
C11_PositiveAmounts ==
  /\ [](\A k \in ExpenseKeys(table) :
          table[k].amount # Absent /\ table[k].amount[1] > 0)
  /\ [][\A i \in Instances :
          (EntryStep(i) /\ ~PositiveAmount(StepAnalysis(event[i].text, last')))
            => table' = table /\ nputs' = nputs]_vars

\* an entry 'hello' for which the classifier gave the amount 0 went through
\* the entry lane and wrote nothing
C11_Witness ==
  /\ last.step = "route"
  /\ last.lane = "expense_entry"
  /\ last.event.text = <<"h","e","l","l","o">>
  /\ last.response = Some(ExpenseJson(Some(PyInt(0))))
  /\ StepAnalysis(last.event.text, last).amount = <<"0">>
  /\ nputs[last.event.message_id] = 0

\* the text is 'cancel' or 'confirm <code>' with the code of the session
ConfirmsOrCancels(text, session) ==
  \/ lower(text) = <<"c","a","n","c","e","l">>
  \/ confirmation_match(lower(text)) = Some(session.confirmation_code)

\* the lane the fixed order gives a message: deletion confirmation,
\* deletion request, expense query, expense entry, help
LaneInOrder(dc, ev, now) ==
  IF /\ LiveSession(dc, ev.username, now)
     /\ ConfirmsOrCancels(ev.text, dc[ev.username])
    THEN "deletion_confirmation"
  ELSE IF IsDeletionRequest[ev.text] THEN "deletion_request"
  ELSE IF IsExpenseQuery[ev.text] THEN "expense_query"
  ELSE IF ~EntryGateMatches[ev.text] THEN "expense_entry"
  ELSE "help"

\* C12: every valid, non-duplicate message is handled by exactly one lane,
\* the first in the order deletion confirmation, deletion request, expense
\* query, expense entry, help whose test it passes; only the entry lane
\* writes a record, only the confirmation lane deletes records, only the
\* request lane stores a session, a session is removed only by the
\* confirmation lane or because it expired, and exactly one reply is sent.
C12_OneLane ==
  [][\A i \in Instances :
       RouteStep(i) =>
         LET ev  == event[i]
             dc  == deletion_confirmations[i]
             dc2 == deletion_confirmations'[i]
         IN  /\ last'.lane = LaneInOrder(dc, ev, clock)
             /\ Len(last'.replies) = 1
             /\ nreplies' = [nreplies EXCEPT ![ev.message_id] = @ + 1]
             /\ ExpenseKeys(table') \ ExpenseKeys(table) # {}
                  => last'.lane = "expense_entry"
             /\ nputs' # nputs => last'.lane = "expense_entry"
             /\ ExpenseKeys(table) \ ExpenseKeys(table') # {}
                  => last'.lane = "deletion_confirmation"
             /\ \A u \in DOMAIN dc2 :
                  (u \notin DOMAIN dc \/ dc2[u] # dc[u])
                    => u = ev.username /\ last'.lane = "deletion_request"
             /\ \A u \in DOMAIN dc \ DOMAIN dc2 :
                  /\ u = ev.username
                  /\ last'.lane = "deletion_confirmation" \/ clock > dc[u].expires_at
             /\ \A j \in Instances \ {i} :
                  deletion_confirmations'[j] = deletion_confirmations[j]]_vars

\* 'delete all my expenses', which passes the test of the deletion request
\* and that of the expense query, was handled as a deletion request
C12_Witness ==
  /\ last.step = "route"
  /\ last.event.text = <<"d","e","l","e","t","e"," ","a","l","l"," ","m","y"," ","e","x","p","e","n","s","e","s">>
  /\ IsDeletionRequest[last.event.text]
  /\ IsExpenseQuery[last.event.text]
  /\ last.lane = "deletion_request"
  /\ Len(last.replies) = 1

\* the body parses, and its message lacks a chat id or its text is empty
\* after trimming
Malformed(m) ==
  /\ m.parsable
  /\ m.chat_id = 0 \/ \A k \in 1..Len(m.text) : IsSpace(m.text[k])

C14_FailOpen ==
  [][\A i \in Instances :
       (/\ ReceiveStep(i)
        /\ last'.fault
        /\ ~Malformed(inbox'[last'.event.message_id]))
         => /\ last'.status # "Already processed"
            /\ pc'[i] = "mark"
            /\ event'[i] = last'.event]_vars

\* the read failed for a message whose marker is in the table, and the
\* invocation went on
C14_Witness ==
  /\ last.step = "receive"
  /\ last.fault
  /\ MarkerKey(last.event.message_id) \in DOMAIN table
  /\ pc[last.inst] = "mark"
  /\ event[last.inst].message_id = last.event.message_id

\* the step sends no reply, writes and deletes no expense record and
\* changes no session
NoEffect ==
  /\ UNCHANGED <<deletion_confirmations, nreplies, nputs>>
  /\ ExpenseKeys(table') = ExpenseKeys(table)
  /\ \A k \in ExpenseKeys(table) : table'[k] = table[k]

\* the Receive step of instance i ends its invocation with 'Already
\* processed'
Dropped(i) ==
  /\ last'.status = "Already processed"
  /\ pc'[i] = "idle"
  /\ NoEffect

C16_MarkerImmutable ==
  [][\A k \in {m \in DOMAIN table : m[1] = "MSG"} :
       /\ k \in DOMAIN table'
       /\ table'[k].processed_at = table[k].processed_at]_vars

\* the reply and the status of the entry lane for an extraction result
EntryOutcome(analysis) ==
  IF PositiveAmount(analysis)
    THEN [replies |-> <<ReplyExpense(float_str(RemoveChar(analysis.amount, ","))[1],
                                     analysis.category, analysis.message)>>,
          status  |-> "Expense processed"]
    ELSE [replies |-> <<ReplyHelp>>, status |-> "Instructions sent"]

\* C17: for every failed outcome of the classifier call (exception, no JSON
\* span, JSON parse error, missing amount or category) analyze_expense
\* returns the amount, category and message of the deterministic fallback
\* and the entry lane answers from them, the scope extractors return their
\* fixed defaults, and the handler returns one of its 200 results.
C17_ClassifierFailure ==
  [][\A i \in Instances :
       RouteStep(i) =>
         /\ (/\ last'.lane = "expense_entry"
             /\ last'.response[1] \in FailedExpenseResponses)
              => /\ StepAnalysis(event[i].text, last') = Fallback[event[i].text]
                 /\ DOMAIN StepAnalysis(event[i].text, last') =
                      {"amount", "category", "message"}
                 /\ last'.replies = EntryOutcome(Fallback[event[i].text]).replies
                 /\ last'.status = EntryOutcome(Fallback[event[i].text]).status
         /\ (/\ last'.lane = "deletion_request"
             /\ last'.response[1] \in FailedScopeResponses)
              => last'.time_range =
                   <<[days |-> NoneV, description |-> "all expenses",
                      count |-> NoneV, position |-> NoneV]>>
         /\ (/\ last'.lane = "expense_query"
             /\ last'.response[1] \in FailedScopeResponses)
              => last'.time_range =
                   <<[days |-> Some(30), description |-> "recent expenses",
                      limit |-> NoneV]>>
         /\ last'.status \in {"Deletion confirmation processed",
                              "Deletion request processed",
                              "Expense query processed", "Expense processed",
                              "Instructions sent"}]_vars

\* the classifier answered 'spent 500 on dinner' with a span that is no
\* JSON, and the entry was recorded with the amount and category of the
\* fallback
C17_Witness ==
  /\ last.step = "route"
  /\ last.lane = "expense_entry"
  /\ last.event.text = <<"s","p","e","n","t"," ","5","0","0"," ","o","n"," ","d","i","n","n","e","r">>
  /\ last.response = Some(GeminiBadJson)
  /\ last.replies[1].kind = "expense_recorded"
  /\ last.replies[1].amount = 50000
  /\ last.replies[1].category = <<"F","o","o","d">>

\* the number a Python value of the classifier's amount field converts to,
\* or NoneV where it converts to none (null, a non-numeric string)
AmountNumber(raw) ==
  IF raw.t \in {"int", "float"} THEN Some(raw.v)
  ELSE IF raw.t = "str" THEN float_str(RemoveChar(raw.s, ","))
  ELSE NoneV

\* the classifier's object has an amount field and a category, and its
\* amount converts to no number or to one that is <= 0
NeedsRevalidation(response) ==
  /\ response.kind = "json"
  /\ response.fields[1].amount # NoneV
  /\ response.fields[1].category # NoneV
  /\ response.fields[1].category[1].t = "str"
  /\ \/ AmountNumber(response.fields[1].amount[1]) = NoneV
     \/ AmountNumber(response.fields[1].amount[1])[1] <= 0

\* C18: whenever the classifier's JSON has amount and category but the
\* amount cannot be converted to a number or is <= 0, analyze_expense tries
\* the Amount Parser on the original text and, if the parser finds an
\* amount, returns that amount and not the unknown sentinel.
C18_Revalidation ==
  [][\A i \in Instances :
       (/\ EntryStep(i)
        /\ NeedsRevalidation(last'.response[1])
        /\ extract_inr_amount(event[i].text) # NoneV
        /\ extract_inr_amount(event[i].text) # Some(0))
         => /\ StepAnalysis(event[i].text, last').amount =
                 format_inr(PyFloat(extract_inr_amount(event[i].text)[1]))
            /\ last'.status = "Expense processed"]_vars

\* C19: when the put of an accepted expense entry fails, nothing is written
\* and the reply is not the '... marked under <category> expenses'
\* confirmation; when the scan of a query fails, the result set is empty.
C19_StoreFailure ==
  [][\A i \in Instances :
       (RouteStep(i) /\ last'.fault) =>
         /\ (/\ last'.lane = "expense_entry"
             /\ PositiveAmount(StepAnalysis(event[i].text, last')))
              => /\ table' = table
                 /\ nputs' = nputs
                 /\ last'.replies[1].kind # "expense_recorded"
         /\ last'.lane = "expense_query"
              => last'.replies =
                   <<ReplyNoExpenses(last'.time_range[1].description)>>]_vars

\* C20: when a message reaches the expense-entry lane and the amount of the
\* extraction result is the unknown sentinel, non-numeric, zero or negative,
\* no expense record is stored and the reply is the fixed help message with
\* status 'Instructions sent'.
C20_InvalidAmount ==
  [][\A i \in Instances :
       (EntryStep(i) /\ ~PositiveAmount(StepAnalysis(event[i].text, last')))
         => /\ ExpenseKeys(table') = ExpenseKeys(table)
            /\ last'.replies = <<ReplyHelp>>
            /\ last'.status = "Instructions sent"]_vars

\* an entry 'hello' for which the classifier gave the amount -5 was answered
\* with the help message and left the user's records as they were
C20_Witness ==
  /\ last.step = "route"
  /\ last.lane = "expense_entry"
  /\ last.event.text = <<"h","e","l","l","o">>
  /\ last.response = Some(ExpenseJson(Some(PyInt(0 - 500))))
  /\ StepAnalysis(last.event.text, last).amount = <<"-","5">>
  /\ last.replies = <<ReplyHelp>>
  /\ last.status = "Instructions sent"
  /\ UserExpenseKeys(table, "alice") = UserExpenseKeys(SeedTable, "alice")

\* the step recorded in last ended an invocation with a response
Returned(step) == step.step \in {"receive", "route"} /\ step.status # ""

\* C21: every invocation terminates and returns a response whose statusCode
\* is 400 exactly for a missing chat id or an empty text, 500 for a body
\* that cannot be parsed, and 200 otherwise.
C21_Terminates ==
  /\ [](Returned(last) =>
          LET m == inbox[last.event.message_id]
              code == StatusCode(last.status)
          IN  /\ code \in {200, 400, 500}
              /\ code = 500 <=> ~m.parsable
              /\ code = 400 <=> m.parsable /\ invalid_request(last.event))
  /\ \A i \in Instances :
       pc[i] \in {"mark", "route"} ~> (pc[i] = "idle" /\ Returned(last))

\* the response half of C21 alone
C21_StatusCodes ==
  Returned(last) =>
    LET m == inbox[last.event.message_id]
    IN  StatusCode(last.status) =
          IF ~m.parsable THEN 500
          ELSE IF invalid_request(last.event) THEN 400 ELSE 200

\* some character of the text is a digit
HasDigit(text) == \E k \in 1..Len(text) : IsDigit(text[k])

\* the multiplier the parser's contract gives a unit token
DocumentedMultiplier(unit) ==
  IF unit \in {<<"k">>, <<"t","h","o","u","s","a","n","d">>} THEN 1000
  ELSE IF unit \in {<<"l">>, <<"l","a","k","h">>, <<"l","a","k","h","s">>} THEN 100000
  ELSE 10000000

\* C22 as stated: for every text in which a digit sequence is followed by a
\* unit token, extract_inr_amount returns the base number times the unit's
\* multiplier; for every text with no digit it returns None.
C22_Original ==
  LET c == parsed.case
  IN  /\ c.number # <<>> /\ c.unit # <<>> =>
            parsed.amount = Some(c.hundredths * DocumentedMultiplier(lower(c.unit)))
      /\ ~HasDigit(parsed.text) => parsed.amount = NoneV

\* C22: for every text whose first number is followed by a unit token,
\* extract_inr_amount returns that number times the unit's multiplier
\* (k, thousand: 1,000; l, lakh, lakhs: 100,000; cr, crore, crores:
\* 10,000,000; letter case ignored, commas stripped); for every text with no
\* digit it returns None.
C22_Multipliers ==
  LET c == parsed.case
  IN  /\ c.number # <<>> /\ c.unit # <<>> /\ ~HasDigit(c.prefix) =>
            parsed.amount = Some(c.hundredths * DocumentedMultiplier(lower(c.unit)))
      /\ ~HasDigit(parsed.text) => parsed.amount = NoneV

\* '  Rent: 1.5  Lakh rent' was parsed: 1.5 lakh, 150,000
C22_Witness ==
  /\ parsed.text = <<" "," ","R","e","n","t",":"," ","1",".","5"," "," ","L","a","k","h"," ","r","e","n","t">>
  /\ parsed.amount = Some(15000000)

\* the Route step of instance i handles a deletion request with a non-empty
\* candidate set while the user's session is PENDING
RequestWhilePending(i) ==
  /\ RequestStep(i)
  /\ LiveSession(deletion_confirmations[i], event[i].username, clock)
  /\ deletion_candidates(table, event[i].username, last'.time_range[1], clock,
                         TRUE) # <<>>

\* the Route step of instance i handles a confirm with the code of the
\* session that the user's live session replaced
StaleConfirm(i) ==
  /\ RouteStep(i)
  /\ LiveSession(deletion_confirmations[i], event[i].username, clock)
  /\ superseded[i][event[i].username] # NoneV
  /\ confirmation_match(lower(event[i].text)) =
       Some(superseded[i][event[i].username][1])
  /\ superseded[i][event[i].username][1] #
       deletion_confirmations[i][event[i].username].confirmation_code

\* C23: a deletion request with a non-empty candidate set handled while the
\* user's session is PENDING is not rejected and replaces the session (the
\* code of the prompt, the new snapshot, expires_at = now + 300); afterwards
\* a confirm with the old code deletes nothing and leaves the new session,
\* and a confirm with the new code deletes the new snapshot and nothing
\* else.
C23_SessionOverwrite ==
  [][\A i \in Instances :
       LET u   == event[i].username
           dc  == deletion_confirmations[i]
           dc2 == deletion_confirmations'[i]
       IN  /\ RequestWhilePending(i) =>
                 LET expenses == deletion_candidates(table, u, last'.time_range[1],
                                                     clock, TRUE)
                 IN  /\ last'.status = "Deletion request processed"
                     /\ Len(last'.replies) = 1
                     /\ last'.replies[1].kind = "confirm_prompt"
                     /\ u \in DOMAIN dc2
                     /\ dc2[u].confirmation_code = last'.replies[1].code
                     /\ dc2[u].expenses_to_delete =
                          [k \in 1..Len(expenses) |-> expenses[k].message_id]
                     /\ dc2[u].expires_at = clock + 300
           /\ StaleConfirm(i) =>
                 /\ last'.lane # "deletion_confirmation"
                 /\ ExpenseKeys(table) \subseteq ExpenseKeys(table')
                 /\ dc2 = dc
           /\ (ValidConfirm(i) /\ superseded[i][u] # NoneV) =>
                 /\ DOMAIN table' = DOMAIN table \ Snapshot(dc[u])
                 /\ u \notin DOMAIN dc2]_vars

\* two requests were handled in the same second, the second one for the
\* newest record under the code deadbeef, and the confirm with deadbeef
\* deleted the newest record only
C23_Witness ==
  /\ last.step = "route"
  /\ last.lane = "deletion_confirmation"
  /\ last.replies[1].kind = "deleted"
  /\ last.event.message_id = 3
  /\ inbox[1].text = <<"d","e","l","e","t","e"," ","a","l","l"," ","m","y"," ","e","x","p","e","n","s","e","s">>
  /\ inbox[2].text = <<"d","e","l","e","t","e"," ","a","l","l"," ","m","y"," ","e","x","p","e","n","s","e","s">>
  /\ nreplies[1] = 1 /\ nreplies[2] = 1
  /\ last.session # NoneV
  /\ last.session[1].confirmation_code = <<"d","e","a","d","b","e","e","f">>
  /\ last.session[1].expense_count = 1
  /\ last.session[1].expires_at = StartClock + SessionTTL
  /\ UserExpenseKeys(table, "alice") = {ExpenseKey("alice", 3)}

\* C24: while a session is live, a message of its user that is neither
\* 'cancel' nor a confirm with the session's code takes the ordinary lane
\* (deletion request, query, entry, help) and, unless it is a deletion
\* request, leaves the session as it is.
C24_FallThrough ==
  [][\A i \in Instances :
       LET u  == event[i].username
           dc == deletion_confirmations[i]
       IN  (/\ RouteStep(i)
            /\ LiveSession(dc, u, clock)
            /\ ~ConfirmsOrCancels(event[i].text, dc[u]))
             => /\ last'.lane =
                     (IF IsDeletionRequest[event[i].text] THEN "deletion_request"
                      ELSE IF IsExpenseQuery[event[i].text] THEN "expense_query"
                      ELSE IF ~EntryGateMatches[event[i].text] THEN "expense_entry"
                      ELSE "help")
                /\ last'.lane # "deletion_request" =>
                     /\ u \in DOMAIN deletion_confirmations'[i]
                     /\ deletion_confirmations'[i][u] = dc[u]]_vars

\* a confirm with another code than the live session's took the entry lane
\* and the session is as it was
C24_Witness ==
  /\ last.step = "route"
  /\ last.event.text = <<"c","o","n","f","i","r","m"," ","d","e","a","d","b","e","e","f">>
  /\ last.lane = "expense_entry"
  /\ last.session # NoneV
  /\ last.now <= last.session[1].expires_at
  /\ last.event.username \in DOMAIN deletion_confirmations[last.inst]
  /\ deletion_confirmations[last.inst][last.event.username] = last.session[1]

\* C25: a deletion request whose candidate set is empty is answered with
\* 'nothing to delete' and leaves the user's session state as it was: no
\* session before, none after; a PENDING session stays, with its code, its
\* snapshot and its expires_at, and its code still confirms.
C25_NothingToDelete ==
  [][\A i \in Instances :
       LET u   == event[i].username
           dc  == deletion_confirmations[i]
           dc2 == deletion_confirmations'[i]
       IN  (/\ RequestStep(i)
            /\ deletion_candidates(table, u, last'.time_range[1], clock,
                                   ~last'.fault) = <<>>)
             => /\ last'.replies = <<ReplyNothingToDelete>>
                /\ last'.status = "Deletion request processed"
                /\ table' = table
                /\ IF LiveSession(dc, u, clock)
                     THEN /\ u \in DOMAIN dc2
                          /\ dc2[u] = dc[u]
                          /\ is_deletion_confirmation(dc2, u,
                               <<"c","o","n","f","i","r","m"," ">> \o dc[u].confirmation_code, clock).result
                     ELSE u \notin DOMAIN dc2]_vars

\* a request that found nothing to delete was answered so while the user's
\* session on a record was live, and the session is as it was
C25_Witness ==
  /\ last.step = "route"
  /\ last.lane = "deletion_request"
  /\ last.replies = <<ReplyNothingToDelete>>
  /\ last.session # NoneV
  /\ last.now <= last.session[1].expires_at
  /\ last.event.username \in DOMAIN deletion_confirmations[last.inst]
  /\ deletion_confirmations[last.inst][last.event.username] = last.session[1]

\* the snapshot a deletion request has to take holds count of the keys in
\* all, or every key of all when there are fewer
SnapshotAmong(i, all, count) ==
  IF count = 0 \/ all = {}
    THEN last'.replies = <<ReplyNothingToDelete>>
    ELSE /\ event[i].username \in DOMAIN deletion_confirmations'[i]
         /\ Snapshot(deletion_confirmations'[i][event[i].username]) \subseteq all
         /\ Cardinality(Snapshot(deletion_confirmations'[i][event[i].username])) =
              (IF count < Cardinality(all) THEN count ELSE Cardinality(all))

HasGateWord(text) ==
  \E w \in {<<"s","h","o","w">>, <<"d","i","s","p","l","a","y">>, <<"l","i","s","t">>, <<"m","y"," ","e","x","p","e","n","s","e","s">>, <<"t","o","t","a","l">>} :
    Contains(w, lower(text))

\* C27: a message whose lower-cased text contains 'show', 'display', 'list',
\* 'my expenses' or 'total' never creates an expense record, whatever amount
\* the classifier or the Amount Parser finds in it; if it is neither a
\* deletion request nor a query it gets the help message.
C27_EntryGate ==
  [][\A i \in Instances :
       (RouteStep(i) /\ HasGateWord(event[i].text))
         => /\ ExpenseKeys(table') \subseteq ExpenseKeys(table)
            /\ nputs' = nputs
            /\ last'.lane # "expense_entry"
            /\ (~IsDeletionRequest[event[i].text] /\ ~IsExpenseQuery[event[i].text])
                 => /\ last'.replies = <<ReplyHelp>>
                    /\ last'.status = "Instructions sent"]_vars

\* 'list 500', in which the Amount Parser finds 500, got the help message
\* and no record
C27_Witness ==
  /\ last.step = "route"
  /\ last.event.text = <<"l","i","s","t"," ","5","0","0">>
  /\ extract_inr_amount(last.event.text) = Some(50000)
  /\ last.replies = <<ReplyHelp>>
  /\ nputs[last.event.message_id] = 0

\* the Route step of instance i accepts an expense entry: it writes a record
AcceptedEntry(i) ==
  /\ EntryStep(i)
  /\ nputs'[event[i].message_id] = nputs[event[i].message_id] + 1

\* C28: every accepted expense entry adds one new record and overwrites
\* none: the user has one record more than before and every record that was
\* in the table is still there, unchanged, even when two entries of the user
\* are handled at the same clock reading or by concurrent invocations.
C28_AppendOnly ==
  [][\A i \in Instances :
       AcceptedEntry(i)
         => /\ Cardinality(UserExpenseKeys(table', event[i].username)) =
                 Cardinality(UserExpenseKeys(table, event[i].username)) + 1
            /\ \A k \in ExpenseKeys(table) :
                 k \in DOMAIN table' /\ table'[k] = table[k]]_vars

\* the sum of the amounts of the records with the given keys
RECURSIVE SumAmounts(_, _)
SumAmounts(t, keys) ==
  IF keys = {} THEN 0
  ELSE LET k == CHOOSE x \in keys : TRUE
       IN  t[k].amount[1] + SumAmounts(t, keys \ {k})

ConfirmElsewhere(i, j) ==
  /\ RouteStep(i)
  /\ j # i
  /\ LiveSession(deletion_confirmations[j], event[i].username, clock)
  /\ ConfirmsOrCancels(event[i].text, deletion_confirmations[j][event[i].username])
  /\ ~(/\ LiveSession(deletion_confirmations[i], event[i].username, clock)
       /\ ConfirmsOrCancels(event[i].text,
                            deletion_confirmations[i][event[i].username]))

\* C30: a correct confirm or a cancel handled by another instance than the
\* one holding the session is not taken for a confirmation: it takes the
\* ordinary lane, deletes nothing, and leaves the session where it is.
C30_MultiInstance ==
  [][\A i, j \in Instances :
       ConfirmElsewhere(i, j)
         => /\ last'.lane =
                 (IF IsDeletionRequest[event[i].text] THEN "deletion_request"
                  ELSE IF IsExpenseQuery[event[i].text] THEN "expense_query"
                  ELSE IF ~EntryGateMatches[event[i].text] THEN "expense_entry"
                  ELSE "help")
            /\ ExpenseKeys(table) \subseteq ExpenseKeys(table')
            /\ deletion_confirmations'[j] = deletion_confirmations[j]]_vars

\* the confirm with the code of the session in instance 1 was handled by
\* instance 2: both records are still there and so is the session
C30_Witness ==
  /\ last.step = "route"
  /\ last.inst = 2
  /\ last.event.text = <<"c","o","n","f","i","r","m"," ","1","a","2","b","3","c","4","d">>
  /\ last.lane # "deletion_confirmation"
  /\ "alice" \in DOMAIN deletion_confirmations[1]
  /\ deletion_confirmations[1]["alice"].confirmation_code = <<"1","a","2","b","3","c","4","d">>
  /\ last.now <= deletion_confirmations[1]["alice"].expires_at
  /\ last.event.username = "alice"
  /\ Snapshot(deletion_confirmations[1]["alice"]) \subseteq DOMAIN table

\* C31: a step that handles a message of user v removes only records of v
\* and, if it stores a session, snapshots only records of v; it leaves the
\* session of every other user, in every instance, as it is.
C31_UserIsolation ==
  [][\A i \in Instances : RouteStep(i) =>
       LET v == event[i].username
       IN  /\ ExpenseKeys(table) \ ExpenseKeys(table') \subseteq UserExpenseKeys(table, v)
           /\ (RequestStep(i) /\ v \in DOMAIN deletion_confirmations'[i])
                => Snapshot(deletion_confirmations'[i][v])
                     \subseteq UserExpenseKeys(table, v)
           /\ \A j \in Instances : \A u \in Users \ {v} :
                /\ u \in DOMAIN deletion_confirmations'[j]
                     <=> u \in DOMAIN deletion_confirmations[j]
                /\ u \in DOMAIN deletion_confirmations[j]
                     => deletion_confirmations'[j][u] = deletion_confirmations[j][u]]_vars

\* bob sent alice's confirm while her session was live and it is as it was;
\* bob has a record of his own from it, and alice's two records are there
C31_Witness ==
  /\ last.step = "route"
  /\ last.event.username = "bob"
  /\ last.event.text = <<"c","o","n","f","i","r","m"," ","1","a","2","b","3","c","4","d">>
  /\ "alice" \in DOMAIN deletion_confirmations[last.inst]
  /\ deletion_confirmations[last.inst]["alice"].confirmation_code = <<"1","a","2","b","3","c","4","d">>
  /\ last.now <= deletion_confirmations[last.inst]["alice"].expires_at
  /\ Cardinality(UserExpenseKeys(table, "alice")) = 2

\* alice's confirm deleted her two records and left the record of bob
C31_WitnessConfirm ==
  /\ last.step = "route"
  /\ last.event.username = "alice"
  /\ last.lane = "deletion_confirmation"
  /\ last.replies[1].kind = "deleted"
  /\ UserExpenseKeys(table, "alice") = {}
  /\ UserExpenseKeys(table, "bob") # {}

\* the Route step of instance i handles a 'confirm <code>' message that does
\* not carry the code of a live session of its sender
UnmatchedConfirm(i) ==
  /\ RouteStep(i)
  /\ confirmation_match(lower(event[i].text)) # NoneV
  /\ ~ValidConfirm(i)

\* C32: a 'confirm <code>' message whose code is not that of the sender's
\* live session, or that comes when the sender has no live session, leaves
\* the table as it is; no expense record comes of it.
C32_UnmatchedConfirm ==
  [][\A i \in Instances : UnmatchedConfirm(i) => table' = table]_vars

\* the classifier's object has a category and an amount that is a number
\* above zero or a comma-grouped digit string of one
PositiveClassifierAmount(response) ==
  /\ response.kind = "json"
  /\ response.fields[1].amount # NoneV
  /\ response.fields[1].category # NoneV
  /\ response.fields[1].category[1].t = "str"
  /\ AmountNumber(response.fields[1].amount[1]) # NoneV
  /\ AmountNumber(response.fields[1].amount[1])[1] > 0

\* C33: whenever the classifier returns a category and a positive amount a,
\* the extraction result of analyze_expense carries a, and the record the
\* entry stores carries a, whatever number the text holds.
C33_ClassifierAmount ==
  [][\A i \in Instances :
       (EntryStep(i) /\ PositiveClassifierAmount(last'.response[1])) =>
         LET a == AmountNumber(last'.response[1].fields[1].amount[1])
             k == ExpenseKey(event[i].username, clock)
         IN  /\ float_str(RemoveChar(StepAnalysis(event[i].text, last').amount, ","))
                  = a
             /\ (k \in DOMAIN table' /\ k \notin DOMAIN table)
                  => table'[k].amount = a]_vars

\* the same for amounts below a thousand only
C33_SmallClassifierAmount ==
  [][\A i \in Instances :
       (/\ EntryStep(i)
        /\ PositiveClassifierAmount(last'.response[1])
        /\ AmountNumber(last'.response[1].fields[1].amount[1])[1] < 100000) =>
         LET a == AmountNumber(last'.response[1].fields[1].amount[1])
             k == ExpenseKey(event[i].username, clock)
         IN  /\ float_str(RemoveChar(StepAnalysis(event[i].text, last').amount, ","))
                  = a
             /\ (k \in DOMAIN table' /\ k \notin DOMAIN table)
                  => table'[k].amount = a]_vars

\* C34: when a delete raises during a confirm, the error reply is sent, the
\* session stays as it was (code, snapshot, expires_at), and exactly the ids
\* deleted before the raise are gone; a confirm removes the session only
\* when every delete of the snapshot returned, and then no id of the
\* snapshot is left.
C34_DeleteFailure ==
  [][\A i \in Instances : ValidConfirm(i) =>
       LET u   == event[i].username
           dc  == deletion_confirmations[i]
           dc2 == deletion_confirmations'[i]
           ids == dc[u].expenses_to_delete
       IN  /\ last'.lane = "deletion_confirmation"
           /\ last'.fault =>
                 /\ last'.replies = <<ReplyDeleteError>>
                 /\ dc2 = dc
                 /\ \E k \in 0..(Len(ids) - 1) :
                      /\ DOMAIN table' = DOMAIN table \ {ids[j] : j \in 1..k}
                      /\ \A key \in DOMAIN table' : table'[key] = table[key]
           /\ u \notin DOMAIN dc2 =>
                 /\ ~last'.fault
                 /\ last'.replies[1].kind = "deleted"
                 /\ DOMAIN table' = DOMAIN table \ Snapshot(dc[u])]_vars

\* the second delete of a confirm raised: the error reply was sent, the
\* older of alice's two records is gone, the newer is there, and her session
\* with the code of the confirm is live
C34_Witness ==
  /\ last.step = "route"
  /\ last.lane = "deletion_confirmation"
  /\ last.fault
  /\ last.replies = <<ReplyDeleteError>>
  /\ last.session # NoneV
  /\ Len(last.session[1].expenses_to_delete) = 2
  /\ UserExpenseKeys(table, "alice") = {last.session[1].expenses_to_delete[2]}
  /\ LiveSession(deletion_confirmations[last.inst], "alice", clock)
  /\ deletion_confirmations[last.inst]["alice"] = last.session[1]

\* the word is no unit token and begins with the letters of one
BeginsLikeUnit(word) ==
  /\ word \notin Range(UnitTokens)
  /\ \E k \in 1..Len(UnitTokens) : MatchAt(UnitTokens[k], word, 1)

\* C35: when the first number of the text is followed by a word that is no
\* unit token and only begins with the letters of one, extract_inr_amount
\* returns the number itself, with no multiplier.
C35_WordAfterNumber ==
  LET c == parsed.case
  IN  (/\ c \in WordCases
       /\ BeginsLikeUnit(c.suffix))
        => parsed.amount = Some(c.hundredths)

\* a word that begins with no unit's letters leaves the number as it is
C35_OtherWords ==
  LET c == parsed.case
  IN  (c \in WordCases /\ ~BeginsLikeUnit(c.suffix))
        => parsed.amount = Some(c.hundredths)
====
